---- MODULE Spec2Model ----
(***************************************************************************)
(* sync-squid: multi-platform video publishing.                            *)
(*                                                                         *)
(* Spec       the publish orchestrator: the upload page's storage-mediated *)
(*            fan-out (handleSubmit + /api/upload/process), the batch      *)
(*            route (/api/upload), the retry route (/api/upload/retry),    *)
(*            the dashboard's retry button, and the storage cleanup.       *)
(* SpecToken  the token manager: getValid<Platform>AccessToken.            *)
(*                                                                         *)
(* One user, one post.  Every await of a handler that touches the store or *)
(* a platform is a step, so requests interleave as they do on the server.  *)
(***************************************************************************)
EXTENDS Integers, FiniteSets, Sequences, TLC

NULL == "null"

(* scheduled_posts.video_file_path is NULL; the paths of blobs are 1, 2, ... *)
NoPath == 0

(* The three platforms the post is published to. *)
SelectedPlatforms == {"youtube", "facebook", "tiktok"}

(* In-flight retry requests the server handles at once. *)
RetryIds == {1, 2}

(* Number of video files the user uploads to storage (paths 1..MaxBlobs). *)
MaxBlobs == 2

VARIABLES
    post_status,      \* scheduled_posts.status; "none" before the row exists
    video_file_path,  \* scheduled_posts.video_file_path
    post_platforms,   \* post_platforms rows of the post, by platform
    storage,          \* paths that hold a blob in the 'videos' bucket
    old,              \* paths whose blob was created more than 24 hours ago
    nextPath,         \* next fresh path name
    submit,           \* the upload page's handleSubmit / the batch handler
    proc,             \* per platform: the fan-out's upload task
    retry,            \* the retry handlers in flight
    showRetry,        \* platforms some open dashboard shows a Retry button for
    retryingPlatform, \* dashboard state: platform waiting for a new file
    removed           \* history: blobs removed, and by which operation

orchVars == << post_status, video_file_path, post_platforms, storage, old,
               nextPath, submit, proc, retry, showRetry, retryingPlatform,
               removed >>

VARIABLES
    connections,      \* platform_connections rows of the user, by platform
    now,              \* Date.now(), in minutes
    nextToken,        \* next token the platform's token endpoint issues
    call              \* the last getValid...AccessToken call and its outcome

tokenVars == << connections, now, nextToken, call >>

VARIABLES
    metadata,         \* scheduled_posts.title, description and tags of the post
    scheduled_at,     \* scheduled_posts.scheduled_at of the post
    edit,             \* the update-metadata handler in flight
    response          \* the last answer of a route

editVars == << metadata, scheduled_at, edit, response >>

(* the state outside the orchestrator and the token manager *)
VARIABLES
    tags,             \* options.tags handed to the YouTube adapter
    validTags,        \* the list validateYouTubeTags returned for tags
    revalidated,      \* the list it returned for validTags
    tagPc             \* "input", "validated", "revalidated"

tagVars == << tags, validTags, revalidated, tagPc >>

VARIABLES
    fileSize,         \* size in bytes of the file handed to the Facebook adapter
    chunkSize         \* the chunk size chosen for it, in bytes; 0 before

chunkVars == << fileSize, chunkSize >>

VARIABLES
    scheduledAt,      \* body.scheduledAt of create-post: a naive local time
    timezone,         \* body.timezone of create-post
    scheduledDate     \* the instant stored as scheduled_posts.scheduled_at

dateVars == << scheduledAt, timezone, scheduledDate >>

VARIABLES
    file,             \* options.videoFile and videoType, and the adapter called
    fbUp,             \* the uploadVideoToFacebook call
    ttUp              \* the uploadVideoToTikTok call

uploadVars == << file, fbUp, ttUp >>

VARIABLES
    retryLog          \* history: the retries accepted and their adapter calls

pureVars == << tagVars, chunkVars, dateVars, uploadVars, retryLog >>

extVars == << editVars, pureVars >>

vars == << orchVars, tokenVars, extVars >>

----------------------------------------------------------------------------
(* Rows and requests *)

NoRow == [status |-> "none", platform_video_id |-> NULL, error_message |-> NULL]

PendingRow == [status |-> "pending", platform_video_id |-> NULL,
               error_message |-> NULL]

(* a retry handler: where it is, the platform asked for, the blob it
   downloaded (videoFilePath), the status of the post row it read and, as
   history while it is about to read the rows again, whether every row was
   uploaded or published when it had updated its own (allUploaded) *)
IdleRetry == [pc |-> "idle", platform |-> NULL, videoFilePath |-> NoPath,
              post_status |-> "none", allUploaded |-> FALSE]

Done(status) == status \in {"uploaded", "published"}

(* faulty variant of AllUploaded: only published rows count *)
AllUploaded_mutant(rows) ==
    \A p \in SelectedPlatforms : rows[p].status = "published"

(* lines 242-244 of the retry handler: every row uploaded or published *)
AllUploaded(rows) == \A p \in SelectedPlatforms : Done(rows[p].status)

(* faulty variant of UploadedRow: the row is left as it was *)
UploadedRow_mutant(row, clearError) == row

(* the update of a row after the platform's adapter returned a video id;
   error_message is cleared only where the handler writes it *)
UploadedRow(row, clearError) ==
    [status |-> "uploaded", platform_video_id |-> "video",
     error_message |-> IF clearError THEN NULL ELSE row.error_message]

(* faulty variant of FailedRow: no message is stored *)
FailedRow_mutant(row) == [row EXCEPT !.status = "failed"]

(* the update of a row after the platform's adapter threw *)
FailedRow(row) ==
    [row EXCEPT !.status = "failed", !.error_message = "error"]

(* no handler of the post is running: the page's flow has not started or has
   ended, and no retry is in flight *)
Quiescent ==
    /\ submit.pc \in {"idle", "done"}
    /\ \A r \in RetryIds : retry[r].pc = "idle"

----------------------------------------------------------------------------
(* Initial state: nothing created, nothing stored, the user not connected *)

InitOrch ==
    /\ post_status = "none"
    /\ video_file_path = NoPath
    /\ post_platforms = [p \in SelectedPlatforms |-> NoRow]
    /\ storage = {}
    /\ old = {}
    /\ nextPath = 1
    /\ submit = [pc |-> "idle", filePath |-> NoPath]
    /\ proc = [p \in SelectedPlatforms |-> "idle"]
    /\ retry = [r \in RetryIds |-> IdleRetry]
    /\ showRetry = {}
    /\ retryingPlatform = NULL
    /\ removed = {}

----------------------------------------------------------------------------
(* Storage-mediated path: handleSubmit of the upload page *)

(* POST /api/upload/create: the post row with status 'uploading' and one
   'pending' row per selected platform *)
CreatePost ==
    /\ submit.pc = "idle"
    /\ post_status' = "uploading"
    /\ post_platforms' = [p \in SelectedPlatforms |-> PendingRow]
    /\ submit' = [submit EXCEPT !.pc = "created"]
    /\ UNCHANGED << video_file_path, storage, old, nextPath, proc, retry,
                    showRetry, retryingPlatform, removed >>

(* step 2: the browser puts the file in the bucket under a fresh name *)
SubmitUploadToStorage ==
    /\ submit.pc = "created"
    /\ nextPath <= MaxBlobs
    /\ storage' = storage \cup {nextPath}
    /\ nextPath' = nextPath + 1
    /\ submit' = [pc |-> "stored", filePath |-> nextPath]
    /\ UNCHANGED << post_status, video_file_path, post_platforms, old, proc,
                    retry, showRetry, retryingPlatform, removed >>

(* step 3: the path is stored on the post for a later retry; step 4 sends one
   process request per platform *)
SubmitStorePath ==
    /\ submit.pc = "stored"
    /\ video_file_path' = submit.filePath
    /\ submit' = [submit EXCEPT !.pc = "fanout"]
    /\ proc' = [p \in SelectedPlatforms |-> "sent"]
    /\ UNCHANGED << post_status, post_platforms, storage, old, nextPath, retry,
                    showRetry, retryingPlatform, removed >>

(* POST /api/upload/process, first half: download the blob; a failed download
   answers 500 without touching the row *)
ProcessDownload(p) ==
    /\ submit.pc = "fanout"
    /\ proc[p] = "sent"
    /\ proc' = [proc EXCEPT ![p] = IF submit.filePath \in storage
                                   THEN "running" ELSE "nofile"]
    /\ UNCHANGED << post_status, video_file_path, post_platforms, storage, old,
                    nextPath, submit, retry, showRetry, retryingPlatform,
                    removed >>

(* the row the process / batch task writes when the adapter returned (ok) or
   threw *)
TaskRow(row, ok) == IF ok THEN UploadedRow(row, FALSE) ELSE FailedRow(row)

(* POST /api/upload/process, second half: the adapter returns or throws, the
   row is updated, the response is ok or 500 *)
ProcessUpload(p, ok) ==
    /\ submit.pc = "fanout"
    /\ proc[p] = "running"
    /\ post_platforms' = [post_platforms EXCEPT ![p] = TaskRow(@, ok)]
    /\ proc' = [proc EXCEPT ![p] = IF ok THEN "ok" ELSE "threw"]
    /\ UNCHANGED << post_status, video_file_path, storage, old, nextPath,
                    submit, retry, showRetry, retryingPlatform, removed >>

(* a task of the fan-out has settled: its adapter returned ("ok") or threw
   ("threw"), or the blob could not be downloaded ("nofile") *)
Settled(result) == result \in {"ok", "threw", "nofile"}

(* faulty variant of Failures: the join counts no rejected request *)
Failures_mutant(results) == {}

(* results of Promise.allSettled: the rejected ones (the response was not ok) *)
Failures(results) ==
    {p \in SelectedPlatforms : results[p] \in {"threw", "nofile"}}

(* the join: delete the blob only if no request was rejected, otherwise
   throw into the catch block *)
SubmitJoin ==
    /\ submit.pc = "fanout"
    /\ \A p \in SelectedPlatforms : Settled(proc[p])
    /\ submit' = [submit EXCEPT !.pc = IF Failures(proc) = {}
                                       THEN "delete" ELSE "catch"]
    /\ UNCHANGED << post_status, video_file_path, post_platforms, storage, old,
                    nextPath, proc, retry, showRetry, retryingPlatform,
                    removed >>

(* POST /api/upload/delete-storage with the page's file path *)
SubmitDeleteStorage ==
    /\ submit.pc = "delete"
    /\ storage' = storage \ {submit.filePath}
    /\ old' = old \ {submit.filePath}
    /\ removed' = IF submit.filePath \in storage
                  THEN removed \cup {[path |-> submit.filePath, by |-> "submit"]}
                  ELSE removed
    /\ submit' = [submit EXCEPT !.pc = "clear"]
    /\ UNCHANGED << post_status, video_file_path, post_platforms, nextPath,
                    proc, retry, showRetry, retryingPlatform >>

(* the page clears the stored path *)
SubmitClearPath ==
    /\ submit.pc = "clear"
    /\ video_file_path' = NoPath
    /\ submit' = [submit EXCEPT !.pc = "setpending"]
    /\ UNCHANGED << post_status, post_platforms, storage, old, nextPath, proc,
                    retry, showRetry, retryingPlatform, removed >>

(* the page sets the post 'pending' *)
SubmitSetPending ==
    /\ submit.pc = "setpending"
    /\ post_status' = "pending"
    /\ submit' = [submit EXCEPT !.pc = "done"]
    /\ UNCHANGED << video_file_path, post_platforms, storage, old, nextPath,
                    proc, retry, showRetry, retryingPlatform, removed >>

(* the catch block: the post is set 'failed', the blob and its path stay *)
SubmitCatch ==
    /\ submit.pc = "catch"
    /\ post_status' = "failed"
    /\ submit' = [submit EXCEPT !.pc = "done"]
    /\ UNCHANGED << video_file_path, post_platforms, storage, old, nextPath,
                    proc, retry, showRetry, retryingPlatform, removed >>

----------------------------------------------------------------------------
(* Batch path: POST /api/upload, the whole fan-out inside one handler *)

(* the post and its rows are inserted and one task per platform starts *)
BatchCreate ==
    /\ submit.pc = "idle"
    /\ post_status' = "uploading"
    /\ post_platforms' = [p \in SelectedPlatforms |-> PendingRow]
    /\ submit' = [submit EXCEPT !.pc = "batch"]
    /\ proc' = [p \in SelectedPlatforms |-> "running"]
    /\ UNCHANGED << video_file_path, storage, old, nextPath, retry, showRetry,
                    retryingPlatform, removed >>

(* one task: the adapter returns or throws inside the task's own try/catch,
   the row is updated, the task resolves with success true or false *)
BatchUpload(p, ok) ==
    /\ submit.pc = "batch"
    /\ proc[p] = "running"
    /\ post_platforms' = [post_platforms EXCEPT ![p] = TaskRow(@, ok)]
    /\ proc' = [proc EXCEPT ![p] = IF ok THEN "ok" ELSE "threw"]
    /\ UNCHANGED << post_status, video_file_path, storage, old, nextPath,
                    submit, retry, showRetry, retryingPlatform, removed >>

(* lines 163-166: every task fulfilled with success true *)
AllSucceeded(results) == \A p \in SelectedPlatforms : results[p] = "ok"

(* after Promise.allSettled the post is 'pending' or 'failed' *)
BatchJoin ==
    /\ submit.pc = "batch"
    /\ \A p \in SelectedPlatforms : Settled(proc[p])
    /\ post_status' = IF AllSucceeded(proc) THEN "pending" ELSE "failed"
    /\ submit' = [submit EXCEPT !.pc = "done"]
    /\ UNCHANGED << video_file_path, post_platforms, storage, old, nextPath,
                    proc, retry, showRetry, retryingPlatform, removed >>

----------------------------------------------------------------------------
(* Dashboard *)

(* showRetry = pp.status === 'failed', over the rows a dashboard read *)
FailedRows(rows) == {p \in SelectedPlatforms : rows[p].status = "failed"}

(* loadPosts: a dashboard (a tab, a device) reads the list and shows a Retry
   button for the rows that are 'failed' in what it read.  A dashboard that
   does not read again keeps its buttons, so the buttons on screen only grow *)
LoadPosts ==
    /\ post_status # "none"
    /\ showRetry' = showRetry \cup FailedRows(post_platforms)
    /\ showRetry' # showRetry
    /\ UNCHANGED << post_status, video_file_path, post_platforms, storage, old,
                    nextPath, submit, proc, retry, retryingPlatform, removed >>

(* the Cancel button next to "Retry with New Video" *)
CancelRetry ==
    /\ retryingPlatform # NULL
    /\ retryingPlatform' = NULL
    /\ UNCHANGED << post_status, video_file_path, post_platforms, storage, old,
                    nextPath, submit, proc, retry, showRetry, removed >>

----------------------------------------------------------------------------
(* Retry: POST /api/upload/retry *)

(* faulty variant of FilePathToUse: the download is taken to succeed *)
FilePathToUse_mutant(newFilePath, post, store) ==
    IF newFilePath # NoPath THEN newFilePath ELSE post.video_file_path

(* lines 126-162: the blob the retry uploads; NoPath when there is none, which
   answers requiresVideo *)
FilePathToUse(newFilePath, post, store) ==
    LET filePathToUse == IF newFilePath # NoPath THEN newFilePath
                         ELSE post.video_file_path
    IN  IF filePathToUse # NoPath /\ filePathToUse \in store
        THEN filePathToUse ELSE NoPath

(* the handler up to the adapter call: read the post and the row, download
   the blob, store a new path on the post, set the row 'pending' *)
RetryBegin(r, p, newFilePath, store) ==
    LET post == [status |-> post_status, video_file_path |-> video_file_path]
        path == FilePathToUse(newFilePath, post, store)
    IN  IF path = NoPath
        THEN /\ retryingPlatform' = p
             /\ UNCHANGED << post_platforms, video_file_path, retry >>
        ELSE /\ video_file_path' =
                    IF newFilePath # NoPath /\ newFilePath # post.video_file_path
                    THEN newFilePath ELSE video_file_path
             /\ post_platforms' = [post_platforms EXCEPT ![p] =
                    [@ EXCEPT !.status = "pending", !.error_message = NULL]]
             /\ retry' = [retry EXCEPT ![r] =
                    [pc |-> "uploading", platform |-> p,
                     videoFilePath |-> path, post_status |-> post.status,
                     allUploaded |-> FALSE]]
             /\ UNCHANGED << retryingPlatform >>

(* the request gets the first free handler *)
FreeHandler(r) ==
    /\ retry[r].pc = "idle"
    /\ \A q \in RetryIds : q < r => retry[q].pc # "idle"

(* the Retry button, first attempt: no file path is sent *)
RetryStart(r, p) ==
    /\ FreeHandler(r)
    /\ p \in showRetry
    /\ retryingPlatform # p
    /\ RetryBegin(r, p, NoPath, storage)
    /\ UNCHANGED << post_status, storage, old, nextPath, submit, proc,
                    showRetry, removed >>

(* "Retry with New Video": the file goes to storage under a fresh name
   (POST /api/upload/storage) and the retry is sent with that path *)
RetryWithNewVideo(r, p) ==
    /\ FreeHandler(r)
    /\ p \in showRetry
    /\ retryingPlatform = p
    /\ nextPath <= MaxBlobs
    /\ storage' = storage \cup {nextPath}
    /\ nextPath' = nextPath + 1
    /\ RetryBegin(r, p, nextPath, storage')
    /\ UNCHANGED << post_status, old, submit, proc, showRetry, removed >>

(* faulty variant of RetryUpload: a failed retry marks the post 'failed' *)
RetryUpload_mutant(r, ok) ==
    /\ retry[r].pc = "uploading"
    /\ LET p == retry[r].platform
       IN  IF ok
           THEN /\ post_platforms' = [post_platforms EXCEPT ![p] =
                                         UploadedRow(@, TRUE)]
                /\ retry' = [retry EXCEPT
                       ![r].pc = "check",
                       ![r].allUploaded = AllUploaded(post_platforms')]
                /\ UNCHANGED post_status
           ELSE /\ post_platforms' = [post_platforms EXCEPT ![p] = FailedRow(@)]
                /\ retry' = [retry EXCEPT ![r] = IdleRetry]
                /\ post_status' = "failed"
    /\ UNCHANGED << video_file_path, storage, old, nextPath,
                    submit, proc, showRetry, retryingPlatform, removed >>

(* the adapter returns: the row is 'uploaded' with the video id and no error;
   the adapter throws: the row is 'failed' with the message, answer 500 *)
RetryUpload(r, ok) ==
    /\ retry[r].pc = "uploading"
    /\ LET p == retry[r].platform
       IN  IF ok
           THEN /\ post_platforms' = [post_platforms EXCEPT ![p] =
                                         UploadedRow(@, TRUE)]
                /\ retry' = [retry EXCEPT
                       ![r].pc = "check",
                       ![r].allUploaded = AllUploaded(post_platforms')]
           ELSE /\ post_platforms' = [post_platforms EXCEPT ![p] = FailedRow(@)]
                /\ retry' = [retry EXCEPT ![r] = IdleRetry]
    /\ UNCHANGED << post_status, video_file_path, storage, old, nextPath,
                    submit, proc, showRetry, retryingPlatform, removed >>

(* lines 236-251: the rows are read again; if all are uploaded the post is
   set 'pending', otherwise the handler answers success *)
RetryCheck(r) ==
    /\ retry[r].pc = "check"
    /\ IF AllUploaded(post_platforms)
       THEN /\ post_status' = "pending"
            /\ retry' = [retry EXCEPT ![r].pc = "remove",
                                      ![r].allUploaded = FALSE]
            /\ UNCHANGED retryingPlatform
       ELSE /\ retry' = [retry EXCEPT ![r] = IdleRetry]
            /\ retryingPlatform' = NULL
            /\ UNCHANGED post_status
    /\ UNCHANGED << video_file_path, post_platforms, storage, old, nextPath,
                    submit, proc, showRetry, removed >>

(* lines 254-258: the blob the retry used is removed from storage *)
RetryRemove(r) ==
    /\ retry[r].pc = "remove"
    /\ LET path == retry[r].videoFilePath
       IN  /\ storage' = storage \ {path}
           /\ old' = old \ {path}
           /\ removed' = IF path \in storage
                         THEN removed \cup {[path |-> path, by |-> "retry"]}
                         ELSE removed
    /\ retry' = [retry EXCEPT ![r].pc = "clear"]
    /\ UNCHANGED << post_status, video_file_path, post_platforms, nextPath,
                    submit, proc, showRetry, retryingPlatform >>

(* lines 260-264: the stored path is cleared; the handler answers success *)
RetryClearPath(r) ==
    /\ retry[r].pc = "clear"
    /\ video_file_path' = NoPath
    /\ retry' = [retry EXCEPT ![r] = IdleRetry]
    /\ retryingPlatform' = NULL
    /\ UNCHANGED << post_status, post_platforms, storage, old, nextPath,
                    submit, proc, showRetry, removed >>

(* history of the retries: per platform the requests that got past the
   checks and the adapter calls that returned, and whether a retry began
   while another was running *)
NoLog ==
    [started |-> [p \in SelectedPlatforms |-> 0],
     succeeded |-> [p \in SelectedPlatforms |-> 0],
     overlapped |-> FALSE]

InitLog == retryLog = NoLog

(* the retries logged per platform *)
MaxLogged == 2

(* the log after a step of the retry handlers *)
Logged ==
    retryLog' =
        [started |->
            [p \in SelectedPlatforms |->
                retryLog.started[p] +
                    (IF \E r \in RetryIds :
                            /\ retry[r].pc = "idle"
                            /\ retry'[r].pc = "uploading"
                            /\ retry'[r].platform = p
                     THEN 1 ELSE 0)],
         succeeded |->
            [p \in SelectedPlatforms |->
                retryLog.succeeded[p] +
                    (IF \E r \in RetryIds :
                            /\ retry[r].pc = "uploading"
                            /\ retry'[r].pc = "check"
                            /\ retry[r].platform = p
                     THEN 1 ELSE 0)],
         overlapped |->
            \/ retryLog.overlapped
            \/ \E r, q \in RetryIds :
                   /\ retry[r].pc = "idle"
                   /\ retry'[r].pc = "uploading"
                   /\ retry[q].pc = "uploading"]

(* a page that ended with YouTube uploaded and Facebook and TikTok failed,
   seen by a dashboard: the state handleSubmit's catch block leaves *)
InitTwoFailed ==
    /\ post_status = "failed"
    /\ video_file_path = 1
    /\ post_platforms =
           [p \in SelectedPlatforms |->
               IF p = "youtube" THEN UploadedRow(PendingRow, FALSE)
               ELSE FailedRow(PendingRow)]
    /\ storage = {1}
    /\ old = {}
    /\ nextPath = 2
    /\ submit = [pc |-> "done", filePath |-> NoPath]
    /\ proc = [p \in SelectedPlatforms |->
                  IF p = "youtube" THEN "ok" ELSE "threw"]
    /\ retry = [r \in RetryIds |-> IdleRetry]
    /\ showRetry = {"facebook", "tiktok"}
    /\ retryingPlatform = NULL
    /\ removed = {}

----------------------------------------------------------------------------
(* Cleanup: POST /api/upload/cleanup *)

(* 24 hours pass while nothing is running (a handler lives 5 minutes at most):
   every blob in storage is now older than a day *)
DayPasses ==
    /\ Quiescent
    /\ old # storage
    /\ old' = storage
    /\ UNCHANGED << post_status, video_file_path, post_platforms, storage,
                    nextPath, submit, proc, retry, showRetry, retryingPlatform,
                    removed >>

(* lines 41-49: the files of the user's folder created more than a day ago *)
FilesToDelete(files, aged) == {f \in files : f \in aged}

(* the files found are removed from storage; no post is read or written *)
Cleanup ==
    /\ FilesToDelete(storage, old) # {}
    /\ storage' = storage \ FilesToDelete(storage, old)
    /\ old' = old \ FilesToDelete(storage, old)
    /\ removed' = removed \cup
           {[path |-> f, by |-> "cleanup"] : f \in FilesToDelete(storage, old)}
    /\ UNCHANGED << post_status, video_file_path, post_platforms, nextPath,
                    submit, proc, retry, showRetry, retryingPlatform >>

----------------------------------------------------------------------------
(* Token manager: lib/platforms/{youtube,tiktok,facebook}.ts *)

TokenPlatforms == {"youtube", "tiktok", "facebook"}

(* Date.now() runs from 0 to MaxTime minutes. *)
MaxTime == 5

(* Tokens the platforms' token endpoints issue: 1..MaxTokens. *)
MaxTokens == 2

(* expires_in of a token response, in minutes *)
ExpiresIn == {3, 10}

(* const fiveMinutes = 5 * 60 * 1000, in minutes *)
fiveMinutes == 5

(* no row in platform_connections for (user, platform) *)
NoConnection == [access_token |-> 0, refresh_token |-> 0, expires_at |-> 0,
                 connected |-> FALSE]

(* no refresh_token column value (null) *)
NoToken == 0

(* call: the platform asked for, the minutes the stored token had left when
   the call read it, how the call ended ("token" or the error thrown), the
   token returned, whether the token endpoint was called and how it answered
   ("none", "ok", "failed"), the expires_in it answered, and a bit that flips
   at every call *)
NoCall == [platform |-> NULL, remaining |-> 0, outcome |-> "none",
           returned |-> NoToken, refresh |-> "none", expires_in |-> 0,
           seq |-> 0]

(* the platforms a platform_connections row can be for *)
ConnectionPlatforms == TokenPlatforms \cup {"instagram"}

InitToken ==
    /\ connections = [p \in ConnectionPlatforms |-> NoConnection]
    /\ now = 0
    /\ nextToken = 1
    /\ call = NoCall

(* faulty variant of NotConnected: the missing row is not detected *)
NotConnected_mutant(connection) == FALSE

(* "if (!connection)": no row was found for the user and the platform *)
NotConnected(connection) == ~connection.connected

(* faulty variant of NearExpiry: the comparison is <= *)
NearExpiry_mutant(connection, t) == connection.expires_at - t <= fiveMinutes

(* the check "expiresAt - now < fiveMinutes" *)
NearExpiry(connection, t) == connection.expires_at - t < fiveMinutes

(* faulty variant of Refreshed: only the expiry is written *)
Refreshed_mutant(connection, refreshed, t) ==
    [connection EXCEPT !.expires_at = t + refreshed.expires_in]

(* the update of the row after a refresh: new access token, new expiry *)
Refreshed(connection, refreshed, t) ==
    [connection EXCEPT !.access_token = refreshed.access_token,
                       !.expires_at = t + refreshed.expires_in]

(* getValidYouTubeAccessToken / getValidTikTokAccessToken: the outcome, the
   token returned, the refresh calls made and the row afterwards.  refreshed
   is the token endpoint's answer, refreshOk whether it answered at all. *)
GetValidRefreshTokenAccessToken(connection, t, refreshOk, refreshed) ==
    IF NotConnected(connection)
    THEN [outcome |-> "notConnected", returned |-> NoToken, refresh |-> "none",
          connection |-> connection]
    ELSE IF NearExpiry(connection, t)
    THEN IF connection.refresh_token = NoToken
         THEN [outcome |-> "noRefreshToken", returned |-> NoToken,
               refresh |-> "none", connection |-> connection]
         ELSE IF refreshOk
         THEN [outcome |-> "token", returned |-> refreshed.access_token,
               refresh |-> "ok",
               connection |-> Refreshed(connection, refreshed, t)]
         ELSE [outcome |-> "refreshFailed", returned |-> NoToken,
               refresh |-> "failed", connection |-> connection]
    ELSE [outcome |-> "token", returned |-> connection.access_token,
          refresh |-> "none", connection |-> connection]

(* getValidFacebookAccessToken: the refresh exchanges the access token itself
   and sits in a try/catch that falls through to the stored token *)
GetValidFacebookAccessToken(connection, t, refreshOk, refreshed) ==
    IF NotConnected(connection)
    THEN [outcome |-> "notConnected", returned |-> NoToken, refresh |-> "none",
          connection |-> connection]
    ELSE IF NearExpiry(connection, t)
    THEN IF refreshOk
         THEN [outcome |-> "token", returned |-> refreshed.access_token,
               refresh |-> "ok",
               connection |-> Refreshed(connection, refreshed, t)]
         ELSE [outcome |-> "token", returned |-> connection.access_token,
               refresh |-> "failed", connection |-> connection]
    ELSE [outcome |-> "token", returned |-> connection.access_token,
          refresh |-> "none", connection |-> connection]

(* getValidAccessToken(userId, platform), by platform *)
GetValidAccessToken(p, connection, t, refreshOk, refreshed) ==
    IF p = "facebook"
    THEN GetValidFacebookAccessToken(connection, t, refreshOk, refreshed)
    ELSE GetValidRefreshTokenAccessToken(connection, t, refreshOk, refreshed)

(* OAuth callback, save<Platform>Connection: the row is upserted with the
   tokens of the code exchange; Facebook stores no refresh token *)
SaveConnection(p, expiresIn) ==
    /\ nextToken <= MaxTokens
    /\ connections' = [connections EXCEPT ![p] =
           [access_token |-> nextToken,
            refresh_token |-> IF p = "facebook" THEN NoToken ELSE nextToken,
            expires_at |-> now + expiresIn,
            connected |-> TRUE]]
    /\ nextToken' = nextToken + 1
    /\ UNCHANGED << now, call >>

(* the dashboard's Disconnect: the row is deleted *)
Disconnect(p) ==
    /\ connections[p].connected
    /\ connections' = [connections EXCEPT ![p] = NoConnection]
    /\ UNCHANGED << now, nextToken, call >>

(* a minute passes *)
Tick ==
    /\ now < MaxTime
    /\ now' = now + 1
    /\ UNCHANGED << connections, nextToken, call >>

(* one call of getValidAccessToken(user, p) by an adapter; the token
   endpoint answers (with the next token) or fails *)
GetToken(p, refreshOk, expiresIn) ==
    /\ refreshOk => nextToken <= MaxTokens
    /\ LET refreshed == [access_token |-> nextToken, expires_in |-> expiresIn]
           res == GetValidAccessToken(p, connections[p], now, refreshOk, refreshed)
       IN  /\ connections' = [connections EXCEPT ![p] = res.connection]
           /\ call' = [platform |-> p,
                       remaining |-> IF NotConnected(connections[p]) THEN 0
                                     ELSE connections[p].expires_at - now,
                       outcome |-> res.outcome,
                       returned |-> res.returned, refresh |-> res.refresh,
                       expires_in |-> IF res.refresh = "ok"
                                      THEN expiresIn ELSE 0,
                       seq |-> 1 - call.seq]
           /\ nextToken' = IF res.refresh = "ok"
                           THEN nextToken + 1 ELSE nextToken
    /\ UNCHANGED now

----------------------------------------------------------------------------
(* Instagram token lookup: lib/platforms/instagram.ts *)

(* faulty variant of InstagramTokenUsable: the comparison is >= *)
InstagramTokenUsable_mutant(connection, t) ==
    /\ connection.connected
    /\ connection.expires_at - t >= fiveMinutes

(* "if (connection) { ... if (expiresAt - now > fiveMinutes)": the Instagram
   row exists and its token has more than five minutes left *)
InstagramTokenUsable(connection, t) ==
    /\ connection.connected
    /\ connection.expires_at - t > fiveMinutes

(* getValidInstagramAccessToken: the Instagram row's token while it is
   usable, otherwise the Facebook lookup, whose error becomes 'Instagram
   account not connected'; facebook is the Facebook row afterwards *)
GetValidInstagramAccessToken(instagram, facebook, t, refreshOk, refreshed) ==
    IF InstagramTokenUsable(instagram, t)
    THEN [outcome |-> "token", returned |-> instagram.access_token,
          refresh |-> "none", facebook |-> facebook]
    ELSE LET fb == GetValidFacebookAccessToken(facebook, t, refreshOk, refreshed)
         IN  [outcome |-> fb.outcome, returned |-> fb.returned,
              refresh |-> fb.refresh, facebook |-> fb.connection]

(* the Instagram OAuth callback: the Facebook row and the Instagram row are
   both upserted with the token of the code exchange, without refresh token *)
SaveInstagramConnection(expiresIn) ==
    /\ nextToken <= MaxTokens
    /\ LET row == [access_token |-> nextToken, refresh_token |-> NoToken,
                   expires_at |-> now + expiresIn, connected |-> TRUE]
       IN  connections' = [connections EXCEPT !["facebook"] = row,
                                              !["instagram"] = row]
    /\ nextToken' = nextToken + 1
    /\ UNCHANGED << now, call >>

(* one call of getValidInstagramAccessToken(user) by the Instagram adapter *)
GetInstagramToken(refreshOk, expiresIn) ==
    /\ refreshOk => nextToken <= MaxTokens
    /\ LET refreshed == [access_token |-> nextToken, expires_in |-> expiresIn]
           res == GetValidInstagramAccessToken(connections["instagram"],
                      connections["facebook"], now, refreshOk, refreshed)
       IN  /\ connections' = [connections EXCEPT !["facebook"] = res.facebook]
           /\ call' = [platform |-> "instagram",
                       remaining |-> IF NotConnected(connections["instagram"])
                                     THEN 0
                                     ELSE connections["instagram"].expires_at - now,
                       outcome |-> res.outcome,
                       returned |-> res.returned, refresh |-> res.refresh,
                       expires_in |-> IF res.refresh = "ok"
                                      THEN expiresIn ELSE 0,
                       seq |-> 1 - call.seq]
           /\ nextToken' = IF res.refresh = "ok"
                           THEN nextToken + 1 ELSE nextToken
    /\ UNCHANGED now

----------------------------------------------------------------------------
(* TikTok metadata update: lib/platforms/tiktok.ts *)

(* updateTikTokVideoMetadata: the token lookup runs first and its error is
   the call's error; with a token in hand the function throws the
   "does not currently support updating metadata" error.  The row is what the
   token lookup left. *)
UpdateTikTokVideoMetadataResult(connection, t, refreshOk, refreshed) ==
    LET token == GetValidRefreshTokenAccessToken(connection, t, refreshOk,
                                                 refreshed)
    IN  [outcome |-> IF token.outcome = "token" THEN "unsupported"
                     ELSE token.outcome,
         refresh |-> token.refresh,
         connection |-> token.connection]

(* one call of updateTikTokVideoMetadata(user, video, options); call records
   it with the error it threw as outcome *)
UpdateTikTokVideoMetadata(refreshOk, expiresIn) ==
    /\ refreshOk => nextToken <= MaxTokens
    /\ LET refreshed == [access_token |-> nextToken, expires_in |-> expiresIn]
           res == UpdateTikTokVideoMetadataResult(connections["tiktok"], now,
                                                  refreshOk, refreshed)
       IN  /\ connections' = [connections EXCEPT !["tiktok"] = res.connection]
           /\ call' = [platform |-> "tiktok",
                       remaining |-> IF NotConnected(connections["tiktok"])
                                     THEN 0
                                     ELSE connections["tiktok"].expires_at - now,
                       outcome |-> res.outcome,
                       returned |-> NoToken, refresh |-> res.refresh,
                       expires_in |-> IF res.refresh = "ok"
                                      THEN expiresIn ELSE 0,
                       seq |-> 1 - call.seq]
           /\ nextToken' = IF res.refresh = "ok"
                           THEN nextToken + 1 ELSE nextToken
    /\ UNCHANGED now

----------------------------------------------------------------------------
(* Requests: the session and the required fields of each route *)

Operations == {"create", "batch", "process", "retry", "metadata", "schedule"}

(* the fields each route tests before it does anything else *)
RequiredFields(op) ==
    CASE op = "create" -> {"title", "description", "scheduledAt", "platforms"}
      [] op = "batch" -> {"video", "title", "description", "scheduledAt",
                          "platforms"}
      [] op = "process" -> {"postId", "filePath", "platform", "title",
                            "description", "scheduledAt"}
      [] op = "retry" -> {"postId", "platform"}
      [] op = "metadata" -> {"title", "description"}
      [] op = "schedule" -> {"scheduledAt"}

(* a field each route reads but does not require *)
OptionalFields(op) ==
    CASE op \in {"create", "batch", "process", "metadata"} -> {"tags"}
      [] op = "retry" -> {"filePath"}
      [] op = "schedule" -> {"timezone"}

(* the field a request lacks, if any ("none": it is complete) *)
Missing(op) == {"none"} \cup RequiredFields(op) \cup OptionalFields(op)

(* the requests a route can receive: without a session (the body is not
   read), or with one and complete or lacking one of the fields it reads *)
Requests(op) ==
    [op : {op}, auth : {FALSE}, missing : {"none"}]
        \cup [op : {op}, auth : {TRUE}, missing : Missing(op)]

(* faulty variant of Rejection: the fields are not tested *)
Rejection_mutant(req) == IF ~req.auth THEN 401 ELSE 0

(* "if (!user) ... 401" then "if (!a || !b ...) ... 400": the status of the
   early return, 0 if the request passes both tests *)
Rejection(req) ==
    IF ~req.auth THEN 401
    ELSE IF req.missing \in RequiredFields(req.op) THEN 400
    ELSE 0

(* a response: the route that answers, the HTTP status (0: accepted, not
   answered yet), success, the error list, and of an edit the values asked
   for, the platform updates called and those that threw; where the route
   is asked under a session and with a file path, the session's user and
   that path *)
NoResponse == [op |-> NULL, status |-> 0, success |-> FALSE,
               errors |-> << >>, called |-> {}, threw |-> {},
               requested |-> "created", user |-> NULL, filePath |-> NoPath]

(* the answer of its route to request req, so far *)
Received(req, status) ==
    [NoResponse EXCEPT !.op = req.op, !.status = status]

(* a route receives request req: it answers the rejection, changing nothing
   else, or goes on with Accepted, the handler's first step *)
Inbound(req, Accepted) ==
    IF Rejection(req) # 0
    THEN /\ response' = Received(req, Rejection(req))
         /\ UNCHANGED << orchVars, metadata, scheduled_at, edit >>
    ELSE /\ Accepted
         /\ response' = Received(req, 0)
         /\ UNCHANGED << metadata, scheduled_at, edit >>

(* POST /api/upload/create *)
CreatePostRequest(req) == Inbound(req, CreatePost)

(* POST /api/upload *)
BatchRequest(req) == Inbound(req, BatchCreate)

(* POST /api/upload/process, for one of the platforms *)
ProcessRequest(req) ==
    Inbound(req, \E p \in SelectedPlatforms : ProcessDownload(p))

(* POST /api/upload/retry, sent by the Retry button of one of the platforms *)
RetryRequest(r, req) ==
    Inbound(req, \E p \in SelectedPlatforms : RetryStart(r, p))

----------------------------------------------------------------------------
(* Metadata edit: PATCH /api/posts/[postId]/metadata *)

(* title, description and tags as one value; "created" is what the post was
   created with *)
EditValues == {"edit1", "edit2"}

(* the handler: where it is, the values and platforms of the request, the
   platform updates not yet settled (todo), those called, those that threw,
   and platformUpdateErrors *)
IdleEdit == [pc |-> "idle", requested |-> "created", platforms |-> {},
             todo |-> {}, called |-> {}, threw |-> {}, errors |-> << >>]

InitEdit ==
    /\ metadata = "created"
    /\ scheduled_at = "created"
    /\ edit = IdleEdit
    /\ response = NoResponse

(* the requests the route can receive, with the new values and the platforms
   to update (none: all) *)
MetadataRequests ==
    {[op |-> req.op, auth |-> req.auth, missing |-> req.missing,
      values |-> v, platforms |-> ps] :
        req \in Requests("metadata"), v \in EditValues,
        ps \in SUBSET SelectedPlatforms}

(* faulty variant of EligibleForUpdate: the platforms asked for are ignored *)
EligibleForUpdate_mutant(rows, platforms) ==
    {p \in SelectedPlatforms :
        /\ rows[p].platform_video_id # NULL
        /\ Done(rows[p].status)}

(* lines 106-118: the rows that have a video id, are 'uploaded' or
   'published', and are among the platforms asked for, if any were *)
EligibleForUpdate(rows, platforms) ==
    {p \in SelectedPlatforms :
        /\ rows[p].platform_video_id # NULL
        /\ Done(rows[p].status)
        /\ platforms # {} => p \in platforms}

(* lines 13-56: the status the route answers before it writes anything, 0 if
   the request goes through *)
MetadataRejection(req, status) ==
    IF Rejection(req) # 0 THEN Rejection(req)
    ELSE IF status = "none" THEN 404
    ELSE IF status = "failed" THEN 400
    ELSE 0

(* the handler up to the platform calls: a rejected request is answered at
   once; otherwise the rows are read, the post is updated and one update per
   eligible platform starts *)
UpdateMetadataBegin(req) ==
    /\ edit.pc = "idle"
    /\ LET rejected == MetadataRejection(req, post_status)
       IN  IF rejected # 0
           THEN /\ response' = [Received(req, rejected) EXCEPT
                                   !.requested = req.values]
                /\ UNCHANGED << metadata, edit >>
           ELSE /\ metadata' = req.values
                /\ edit' = [pc |-> "updating", requested |-> req.values,
                            platforms |-> req.platforms,
                            todo |-> EligibleForUpdate(post_platforms,
                                                       req.platforms),
                            called |-> {}, threw |-> {}, errors |-> << >>]
                /\ response' = [Received(req, 0) EXCEPT
                                   !.requested = req.values]
    /\ UNCHANGED scheduled_at

(* lines 119-186: the update of one platform returns or throws inside its
   own try/catch; a throw pushes one entry on platformUpdateErrors.  The
   TikTok update always throws. *)
PlatformUpdate(p, ok) ==
    /\ edit.pc = "updating"
    /\ p \in edit.todo
    /\ p = "tiktok" => ~ok
    /\ edit' = [edit EXCEPT !.todo = @ \ {p},
                            !.called = @ \cup {p},
                            !.threw = IF ok THEN @ ELSE @ \cup {p},
                            !.errors = IF ok THEN @ ELSE Append(@, p)]
    /\ UNCHANGED << metadata, scheduled_at, response >>

(* lines 188-201: after Promise.allSettled the route answers success, with
   the error list *)
UpdateMetadataRespond ==
    /\ edit.pc = "updating"
    /\ edit.todo = {}
    /\ response' = [NoResponse EXCEPT !.op = "metadata",
                                      !.status = 200, !.success = TRUE,
                                      !.errors = edit.errors,
                                      !.called = edit.called,
                                      !.threw = edit.threw,
                                      !.requested = edit.requested]
    /\ edit' = IdleEdit
    /\ UNCHANGED << metadata, scheduled_at >>

----------------------------------------------------------------------------
(* Schedule edit: PATCH /api/posts/[postId]/schedule *)

(* the new time, converted to UTC, compared with the clock at the request *)
ScheduleValues == {"past", "future"}

ScheduleRequests ==
    {[op |-> req.op, auth |-> req.auth, missing |-> req.missing,
      values |-> v] : req \in Requests("schedule"), v \in ScheduleValues}

(* lines 10-70: the status the route answers before it writes anything, 0 if
   the request goes through *)
ScheduleRejection(req, status) ==
    IF Rejection(req) # 0 THEN Rejection(req)
    ELSE IF status = "none" THEN 404
    ELSE IF status \notin {"pending", "uploading"} THEN 400
    ELSE IF req.values = "past" THEN 400
    ELSE 0

(* faulty variant of RescheduleCalls: every uploaded row is rescheduled *)
RescheduleCalls_mutant(rows) ==
    {p \in SelectedPlatforms :
        /\ rows[p].platform_video_id # NULL
        /\ rows[p].status = "uploaded"}

(* lines 103-124: the platform calls of a schedule edit: YouTube's, when its
   row has a video id and is 'uploaded' *)
RescheduleCalls(rows) ==
    {p \in SelectedPlatforms :
        /\ rows[p].platform_video_id # NULL
        /\ rows[p].status = "uploaded"
        /\ p = "youtube"}

(* the whole handler: a rejected request is answered at once; otherwise the
   post's scheduled_at is updated, YouTube's video is rescheduled (the call
   returns or throws inside its try/catch) and the route answers success *)
UpdateSchedule(req) ==
    LET rejected == ScheduleRejection(req, post_status)
    IN  /\ IF rejected # 0
           THEN /\ response' = Received(req, rejected)
                /\ UNCHANGED scheduled_at
           ELSE \E ok \in BOOLEAN :
                LET calls == RescheduleCalls(post_platforms)
                    threw == IF ok THEN {} ELSE calls
                IN  /\ scheduled_at' = req.values
                    /\ response' = [Received(req, 200) EXCEPT
                           !.success = TRUE,
                           !.called = calls,
                           !.threw = threw,
                           !.errors = IF threw = {} THEN << >>
                                      ELSE << "youtube" >>,
                           !.requested = req.values]
        /\ UNCHANGED << metadata, edit >>

----------------------------------------------------------------------------
(* YouTube tags: validateYouTubeTags *)

(* A tag is a sequence of characters; a character is a string of length 1. *)
maxTagLength == 30
maxTotalLength == 500

LowerCase == {"a", "b"}
UpperCase == {"A", "B"}
Digits == {"1"}

(* \w of the regular expressions: letters, digits and the underscore *)
WordChars == LowerCase \cup UpperCase \cup Digits \cup {"_"}

(* \s of the regular expressions *)
WhiteSpace == {" ", "\t"}

(* String.prototype.toLowerCase *)
toLowerCase(tag) ==
    [i \in 1..Len(tag) |->
        CASE tag[i] = "A" -> "a"
          [] tag[i] = "B" -> "b"
          [] OTHER -> tag[i]]

(* tag without its leading and trailing characters of set: trim() with
   WhiteSpace, replace(/^\-+|\-+$/g, '') with the hyphen *)
Strip(tag, set) ==
    LET keep == {i \in 1..Len(tag) : tag[i] \notin set}
    IN  IF keep = {} THEN << >>
        ELSE SubSeq(tag, CHOOSE i \in keep : \A j \in keep : i <= j,
                         CHOOSE i \in keep : \A j \in keep : j <= i)

Trim(tag) == Strip(tag, WhiteSpace)

(* the two replace calls that remove punctuation: only word characters,
   white space and hyphens stay *)
RemoveInvalid(tag) ==
    LET Valid(c) == c \in WordChars \cup WhiteSpace \cup {"-"}
    IN  SelectSeq(tag, Valid)

(* replace(/\s+/g, ' '): each run of white space becomes one space *)
NormalizeSpaces(tag) ==
    LET F[i \in 0..Len(tag)] ==
            IF i = 0 THEN << >>
            ELSE IF tag[i] \notin WhiteSpace THEN Append(F[i - 1], tag[i])
            ELSE IF i > 1 /\ tag[i - 1] \in WhiteSpace THEN F[i - 1]
            ELSE Append(F[i - 1], " ")
    IN  F[Len(tag)]

(* faulty variant of sanitizeTag: punctuation is kept *)
sanitizeTag_mutant(tag) ==
    LET sanitized == Trim(NormalizeSpaces(tag))
        stripped == Strip(sanitized, {"-"})
    IN  IF Len(sanitized) < 1 THEN << >>
        ELSE IF Len(stripped) < 1 THEN << >>
        ELSE IF \A i \in 1..Len(stripped) : stripped[i] \in WhiteSpace
        THEN << >>
        ELSE stripped

(* lines 386-420; the empty sequence is the empty string *)
sanitizeTag(tag) ==
    LET sanitized == Trim(NormalizeSpaces(RemoveInvalid(tag)))
        stripped == Strip(sanitized, {"-"})
    IN  IF Len(sanitized) < 1 THEN << >>
        ELSE IF Len(stripped) < 1 THEN << >>
        ELSE IF \A i \in 1..Len(stripped) : stripped[i] \in WhiteSpace
        THEN << >>
        ELSE stripped

(* lines 427-439: the tag trimmed, sanitized and cut to maxTagLength; empty
   when the loop skips it *)
ProcessedTag(tag) ==
    LET trimmed == Trim(tag)
        sanitized == IF trimmed = << >> THEN << >> ELSE sanitizeTag(trimmed)
    IN  IF Len(sanitized) > maxTagLength
        THEN Trim(SubSeq(sanitized, 1, maxTagLength))
        ELSE sanitized

(* faulty variant of YouTubeTagLength: the quotes are not counted *)
YouTubeTagLength_mutant(processedTag, validCount) ==
    Len(processedTag) + (IF validCount > 0 THEN 1 ELSE 0)

(* lines 449-455: the length YouTube counts for the tag: two quotes if it has
   a space, and a comma if it is not the first *)
YouTubeTagLength(processedTag, validCount) ==
    LET hasSpaces == \E i \in 1..Len(processedTag) : processedTag[i] = " "
        tagCharLength == IF hasSpaces THEN Len(processedTag) + 2
                         ELSE Len(processedTag)
        commaLength == IF validCount > 0 THEN 1 ELSE 0
    IN  tagCharLength + commaLength

(* lines 441-446: the tag, lower-cased, is in seenTags *)
SeenTag(processedTag, seenTags) == toLowerCase(processedTag) \in seenTags

(* one round of the loop of lines 424-466 *)
ValidateStep(acc, tag) ==
    LET processedTag == ProcessedTag(tag)
        youtubeTagLength == YouTubeTagLength(processedTag, Len(acc.validTags))
    IN  IF acc.break \/ processedTag = << >> THEN acc
        ELSE IF SeenTag(processedTag, acc.seenTags) THEN acc
        ELSE IF acc.totalLength + youtubeTagLength > maxTotalLength
        THEN [acc EXCEPT !.break = TRUE]
        ELSE [acc EXCEPT
                 !.validTags = Append(@, processedTag),
                 !.seenTags = @ \cup {toLowerCase(processedTag)},
                 !.totalLength = @ + youtubeTagLength]

(* lines 372-469 *)
validateYouTubeTags(list) ==
    LET F[i \in 0..Len(list)] ==
            IF i = 0
            THEN [validTags |-> << >>, seenTags |-> {}, totalLength |-> 0,
                  break |-> FALSE]
            ELSE ValidateStep(F[i - 1], list[i])
    IN  F[Len(list)].validTags

(* The tag lists drawn: the empty list, one tag, or a tag and a shorter one,
   over an alphabet with both cases, a hyphen, a space and a punctuation
   mark; and lists of distinct tags of full length followed by one tag
   around the length limit. *)
Alphabet == {"a", "A", "-", " ", "!"}
MaxChars == 3
MaxFill == 17

TagsUpTo(n) == UNION {[1..m -> Alphabet] : m \in 0..n}

Vocabulary == TagsUpTo(MaxChars)

ShortLists ==
    {<< >>} \cup {<< t >> : t \in Vocabulary}
            \cup {<< t, u >> : t \in Vocabulary, u \in TagsUpTo(MaxChars - 1)}

Filler(i) == [j \in 1..maxTagLength |-> IF j <= i THEN "a" ELSE "b"]

Pad(n) == [j \in 1..n |-> "b"]

PadLengths == {0, maxTagLength - 2, maxTagLength - 1, maxTagLength}

(* no tag of full length, or as many as make the list count 500 or so *)
FillCounts == {0, MaxFill - 1, MaxFill}

LongLists ==
    {Append([i \in 1..k |-> Filler(i)], Pad(n) \o core) :
        k \in FillCounts, n \in PadLengths, core \in Vocabulary}

TagInputs == ShortLists \cup LongLists

InitTagInputs ==
    /\ tags \in TagInputs
    /\ validTags = << >>
    /\ revalidated = << >>
    /\ tagPc = "input"

(* line 191: the adapter validates the tags of its options *)
ValidateTags ==
    /\ tagPc = "input"
    /\ validTags' = validateYouTubeTags(tags)
    /\ tagPc' = "validated"
    /\ UNCHANGED << tags, revalidated >>

(* the validator applied to a list it returned *)
RevalidateTags ==
    /\ tagPc = "validated"
    /\ revalidated' = validateYouTubeTags(validTags)
    /\ tagPc' = "revalidated"
    /\ UNCHANGED << tags, validTags >>

InitTags ==
    /\ tags = << >>
    /\ validTags = << >>
    /\ revalidated = << >>
    /\ tagPc = "input"

----------------------------------------------------------------------------
(* Scheduled time: convertNaiveDateToUTC and the create-post route *)

(* Time is counted in hours from 2024-11-02T00:00:00Z; a naive local time is
   counted in hours from 2024-11-02T00:00:00 on the wall clock. *)
MaxHour == 48

(* America/Chicago goes from UTC-5 to UTC-6 on 2024-11-03 at 07:00:00Z *)
ChicagoFallBack == 31

Timezones == {"Asia/Tokyo", "Europe/Berlin", "America/Chicago"}

(* hours the wall clock of the zone is ahead of UTC at instant utc *)
UtcOffset(zone, utc) ==
    CASE zone = "Asia/Tokyo" -> 9
      [] zone = "Europe/Berlin" -> 1
      [] zone = "America/Chicago" ->
            IF utc < ChicagoFallBack THEN 0 - 5 ELSE 0 - 6

(* Intl.DateTimeFormat(timeZone).formatToParts of an instant, read back with
   Date.UTC: the wall clock of the zone at that instant *)
WallClock(zone, utc) == utc + UtcOffset(zone, utc)

(* lines 435-482: the naive time is read as a UTC instant, the zone's wall
   clock at that instant gives the offset, and the offset is added *)
convertNaiveDateToUTC(naive, zone) ==
    LET localTimeAsUTC == naive
        desiredLocal == naive
        actualLocal == WallClock(zone, localTimeAsUTC)
        offsetMs == desiredLocal - actualLocal
    IN  localTimeAsUTC + offsetMs

InitDate ==
    /\ scheduledAt = 0
    /\ timezone = "Asia/Tokyo"
    /\ scheduledDate = 0

InitSchedules ==
    /\ scheduledAt \in 0..MaxHour
    /\ timezone \in Timezones
    /\ scheduledDate = 0

(* POST /api/upload/create with scheduledAt and a timezone other than UTC:
   the post is inserted with the converted time *)
CreatePostAt ==
    /\ CreatePost
    /\ scheduledDate' = convertNaiveDateToUTC(scheduledAt, timezone)
    /\ UNCHANGED << scheduledAt, timezone >>

----------------------------------------------------------------------------
(* Chunked upload to Facebook: the chunk size *)

MB == 1024 * 1024

(* largest file size drawn, in MB *)
MaxFileMB == 700

(* faulty variant of getOptimalChunkSize: medium files start at 50MB *)
getOptimalChunkSize_mutant(size) ==
    IF size > 500 * MB THEN 20 * MB
    ELSE IF size > 100 * MB THEN 10 * MB
    ELSE IF size > 50 * MB THEN 5 * MB
    ELSE 2 * MB

(* fileSizeMB = fileSize / (1024 * 1024), and fileSizeMB > n exactly when
   fileSize > n * MB *)
getOptimalChunkSize(size) ==
    IF size > 500 * MB THEN 20 * MB
    ELSE IF size > 100 * MB THEN 10 * MB
    ELSE IF size > 20 * MB THEN 5 * MB
    ELSE 2 * MB

(* the sizes drawn: every whole number of MB up to MaxFileMB, one byte less
   and one byte more *)
FileSizes ==
    {n * MB + d : n \in 1..MaxFileMB, d \in {-1, 0, 1}}

InitChunk ==
    /\ fileSize = MB
    /\ chunkSize = 0

InitFileSizes ==
    /\ fileSize \in FileSizes
    /\ chunkSize = 0

(* line 752: the upload session has started, the chunk size is chosen *)
ChooseChunkSize ==
    /\ chunkSize = 0
    /\ chunkSize' = getOptimalChunkSize(fileSize)
    /\ UNCHANGED fileSize

----------------------------------------------------------------------------
(* Chunked uploads: uploadVideoToFacebook and uploadVideoToTikTok *)

(* A byte count is kept as whole megabytes and bytes, [mb, b] with b < MB:
   the counts go up to 4096MB and some bytes, beyond TLC's integers. *)
ByteCount(mb, b) == [mb |-> mb, b |-> b]

Zero == ByteCount(0, 0)

(* k megabytes and d bytes, d negative for bytes less *)
Around(k, d) == IF d >= 0 THEN ByteCount(k, d) ELSE ByteCount(k - 1, MB + d)

(* x < y, x + bytes and Math.min(x, y) on byte counts *)
Less(x, y) == x.mb < y.mb \/ (x.mb = y.mb /\ x.b < y.b)

Plus(x, bytes) ==
    ByteCount(x.mb + (x.b + bytes) \div MB, (x.b + bytes) % MB)

MathMin(x, y) == IF Less(y, x) THEN y ELSE x

(* fileSizeMB > k, with fileSizeMB = fileSize / (1024 * 1024) *)
OverMB(size, k) == Less(ByteCount(k, 0), size)

(* byte count of an integer *)
ToByteCount(n) == ByteCount(n \div MB, n % MB)

(* the byte count as one integer, for the counts up to 2047MB; the chunk size
   selector gives every larger file what it gives a file of 2047MB *)
Bytes(size) == IF size.mb >= 2047 THEN 2047 * MB ELSE size.mb * MB + size.b

(* Math.ceil(fileSize / chunkSize), for a chunk size of whole megabytes *)
MathCeil(size, chunk) ==
    LET chunkMB == chunk \div MB
    IN  size.mb \div chunkMB
            + (IF size.mb % chunkMB # 0 \/ size.b > 0 THEN 1 ELSE 0)

(* bytes above and below a size limit that the uploaded files are taken at *)
MaxExtra == 1

(* the sizes, in MB, the uploaded files are taken around *)
SizeMarks == {0, 2, 20, 100, 1000, 4096}

UploadSizes ==
    {Around(k, d) : k \in SizeMarks \ {0}, d \in (0 - MaxExtra)..MaxExtra}
        \cup {Around(0, d) : d \in 0..MaxExtra}

VideoTypes == {"VIDEO", "REELS"}

(* faulty variant of maxFileSizeMB: the limit of regular videos for both *)
maxFileSizeMB_mutant(videoType) == 4096

(* line 700 *)
maxFileSizeMB(videoType) == IF videoType = "REELS" THEN 1000 ELSE 4096

(* faulty variant of maxRetries: seven attempts *)
maxRetries_mutant(size) == 7

(* line 707 *)
maxRetries(size) == IF OverMB(size, 100) THEN 5 ELSE 3

(* line 846 *)
maxChunkRetries == 3

(* lines 917-923 *)
shouldRetryError(is_transient, attempt, max) ==
    is_transient /\ attempt < max - 1

RECURSIVE MathPow(_, _)
MathPow(base, n) == IF n = 0 THEN 1 ELSE base * MathPow(base, n - 1)

(* faulty variant of waitWithBackoff: the delay grows linearly *)
waitWithBackoff_mutant(attempt, size) ==
    LET baseDelay == IF OverMB(size, 100) THEN 5000 ELSE 2000
    IN  baseDelay * (attempt + 1)

(* lines 928-933: the delay waited, in ms *)
waitWithBackoff(attempt, size) ==
    LET baseDelay == IF OverMB(size, 100) THEN 5000 ELSE 2000
    IN  baseDelay * MathPow(2, attempt)

(* lines 871 and 887: the delay before a chunk is sent again, in ms *)
ChunkDelay(n) == (n + 1) * 2000

(* the answers of the Graph API to a request: ok, an error with
   is_transient, an error without, no answer within the timeout (fetch
   throws), and for a Start request an answer without upload_session_id *)
Outcomes == {"ok", "transient", "permanent", "timeout"}

StartOutcomes == Outcomes \cup {"nosession"}

NoRequest == [phase |-> "none", outcome |-> "none", from |-> Zero, to |-> Zero]

NoWait == [kind |-> "none", n |-> 0, ms |-> 0]

(* the adapter call: where it is, its loop counters and offsets, and as
   history the number of Start requests sent and sessions opened, the last
   request with its answer, and the wait its handling ended with *)
IdleFacebook ==
    [pc |-> "idle", attempt |-> 0, chunkIndex |-> 0, startOffset |-> Zero,
     retry |-> 0, starts |-> 0, sessions |-> 0, request |-> NoRequest,
     wait |-> NoWait]

(* chunkSize and totalChunks of lines 752-753 *)
FacebookChunkSize(size) == getOptimalChunkSize(Bytes(size))

totalChunks(size) == MathCeil(size, FacebookChunkSize(size))

(* faulty variant of EndOffset: the chunk is not cut at the end of the file *)
EndOffset_mutant(startOffset, chunk, size) == Plus(startOffset, chunk)

(* lines 759 and 253: endOffset *)
EndOffset(startOffset, chunk, size) == MathMin(Plus(startOffset, chunk), size)

(* faulty variant of CatchUpload: any error ends the upload *)
CatchUpload_mutant(f, size) == [f EXCEPT !.pc = "failed"]

(* lines 818-828: the catch of the attempt loop: the last attempt throws the
   error, any other waits and starts over with a new Start request *)
CatchUpload(f, size) ==
    IF f.attempt = maxRetries(size) - 1
    THEN [f EXCEPT !.pc = "failed"]
    ELSE [f EXCEPT !.pc = "start", !.attempt = @ + 1,
                   !.chunkIndex = 0, !.startOffset = Zero, !.retry = 0,
                   !.wait = [kind |-> "phase", n |-> f.attempt,
                             ms |-> waitWithBackoff(f.attempt, size)]]

(* lines 693-704: the size check *)
FacebookBegin ==
    /\ file.platform = "facebook"
    /\ fbUp.pc = "idle"
    /\ fbUp' = [fbUp EXCEPT !.pc =
                 IF OverMB(file.size, maxFileSizeMB(file.videoType))
                 THEN "rejected" ELSE "start"]
    /\ UNCHANGED << file, ttUp >>

(* lines 710-749: a Start request and what the adapter does with the answer *)
FacebookStart(outcome) ==
    /\ fbUp.pc = "start"
    /\ LET size == file.size
           sent == [fbUp EXCEPT !.starts = @ + 1, !.wait = NoWait,
                       !.request = [phase |-> "start", outcome |-> outcome,
                                    from |-> Zero, to |-> Zero]]
       IN  fbUp' =
             IF outcome = "ok"
             THEN [sent EXCEPT !.sessions = @ + 1,
                               !.chunkIndex = 0, !.startOffset = Zero,
                               !.retry = 0,
                               !.pc = IF totalChunks(size) > 0
                                      THEN "transfer" ELSE "finish"]
             ELSE IF /\ outcome \in {"transient", "permanent"}
                     /\ shouldRetryError(outcome = "transient", fbUp.attempt,
                                         maxRetries(size))
             THEN [sent EXCEPT !.attempt = @ + 1,
                               !.wait = [kind |-> "phase", n |-> fbUp.attempt,
                                         ms |-> waitWithBackoff(fbUp.attempt,
                                                                size)]]
             ELSE CatchUpload(sent, size)
    /\ UNCHANGED << file, ttUp >>

(* lines 758-778 and 837-894: a Transfer request for the current chunk and
   what uploadChunkWithRetry and its caller do with the answer *)
FacebookTransfer(outcome) ==
    /\ fbUp.pc = "transfer"
    /\ LET size == file.size
           endOffset == EndOffset(fbUp.startOffset, FacebookChunkSize(size), size)
           sent == [fbUp EXCEPT !.wait = NoWait,
                       !.request = [phase |-> "transfer", outcome |-> outcome,
                                    from |-> fbUp.startOffset, to |-> endOffset]]
           again == [sent EXCEPT !.retry = @ + 1,
                        !.wait = [kind |-> "chunk", n |-> fbUp.retry,
                                  ms |-> ChunkDelay(fbUp.retry)]]
       IN  fbUp' =
             IF outcome = "ok"
             THEN [sent EXCEPT !.startOffset = endOffset,
                               !.chunkIndex = @ + 1, !.retry = 0,
                               !.pc = IF fbUp.chunkIndex + 1 < totalChunks(size)
                                      THEN "transfer" ELSE "finish"]
             ELSE IF outcome = "transient" /\ fbUp.retry < maxChunkRetries - 1
             THEN again
             ELSE IF fbUp.retry = maxChunkRetries - 1
             THEN CatchUpload(sent, size)
             ELSE again
    /\ UNCHANGED << file, ttUp >>

(* lines 780-828: the Finish request and its answer *)
FacebookFinish(outcome) ==
    /\ fbUp.pc = "finish"
    /\ LET sent == [fbUp EXCEPT !.wait = NoWait,
                       !.request = [phase |-> "finish", outcome |-> outcome,
                                    from |-> Zero, to |-> Zero]]
       IN  fbUp' = IF outcome = "ok" THEN [sent EXCEPT !.pc = "done"]
                 ELSE CatchUpload(sent, file.size)
    /\ UNCHANGED << file, ttUp >>

(* TikTok: const chunkSize = 10000000 *)
TikTokChunkSize == 10000000

(* the largest file handed to the TikTok adapter, in chunks *)
MaxTikTokChunks == 3

TikTokSizes ==
    {n * TikTokChunkSize + d : n \in 1..MaxTikTokChunks,
                               d \in (0 - MaxExtra)..MaxExtra}
        \cup 0..MaxExtra

(* Math.ceil(videoBuffer.byteLength / 10000000), lines 222 and 249 *)
TikTokTotalChunks(byteLength) ==
    byteLength \div TikTokChunkSize
        + (IF byteLength % TikTokChunkSize # 0 THEN 1 ELSE 0)

IdleTikTok ==
    [pc |-> "idle", total_chunk_count |-> 0, chunkIndex |-> 0,
     startOffset |-> Zero, request |-> NoRequest]

(* lines 200-250: the init request declares the chunk count; an error answer
   throws *)
TikTokInit(ok) ==
    /\ file.platform = "tiktok"
    /\ ttUp.pc = "idle"
    /\ LET byteLength == Bytes(file.size)
           declared == [ttUp EXCEPT
                           !.total_chunk_count = TikTokTotalChunks(byteLength)]
       IN  ttUp' = IF ~ok THEN [declared EXCEPT !.pc = "failed"]
                 ELSE [declared EXCEPT !.pc =
                          IF TikTokTotalChunks(byteLength) > 0
                          THEN "upload" ELSE "done"]
    /\ UNCHANGED << file, fbUp >>

(* lines 252-271: the PUT of the current chunk; an error answer throws *)
TikTokChunk(ok) ==
    /\ ttUp.pc = "upload"
    /\ LET endOffset == EndOffset(ttUp.startOffset, TikTokChunkSize, file.size)
           sent == [ttUp EXCEPT !.request =
                       [phase |-> "transfer",
                        outcome |-> IF ok THEN "ok" ELSE "permanent",
                        from |-> ttUp.startOffset, to |-> endOffset]]
       IN  ttUp' = IF ~ok THEN [sent EXCEPT !.pc = "failed"]
                 ELSE [sent EXCEPT
                          !.startOffset = endOffset,
                          !.chunkIndex = @ + 1,
                          !.pc = IF ttUp.chunkIndex + 1
                                      < TikTokTotalChunks(Bytes(file.size))
                                 THEN "upload" ELSE "done"]
    /\ UNCHANGED << file, fbUp >>

(* no upload *)
InitUpload ==
    /\ file = [platform |-> "facebook", size |-> Zero, videoType |-> "VIDEO"]
    /\ fbUp = IdleFacebook
    /\ ttUp = IdleTikTok

(* the files handed to the two adapters *)
InitFiles ==
    /\ file \in [platform : {"facebook"}, size : UploadSizes,
                 videoType : VideoTypes]
            \cup {[platform |-> "tiktok", size |-> ToByteCount(n),
                    videoType |-> "VIDEO"] : n \in TikTokSizes}
    /\ fbUp = IdleFacebook
    /\ ttUp = IdleTikTok

----------------------------------------------------------------------------
(* Specifications *)

Init ==
    InitOrch /\ InitToken /\ InitEdit /\ InitTags /\ InitChunk /\ InitDate
        /\ InitUpload /\ InitLog

Next ==
    \/ CreatePost /\ UNCHANGED << tokenVars, extVars >>
    \/ SubmitUploadToStorage /\ UNCHANGED << tokenVars, extVars >>
    \/ SubmitStorePath /\ UNCHANGED << tokenVars, extVars >>
    \/ \E p \in SelectedPlatforms : ProcessDownload(p) /\ UNCHANGED << tokenVars, extVars >>
    \/ \E p \in SelectedPlatforms, ok \in BOOLEAN :
          ProcessUpload(p, ok) /\ UNCHANGED << tokenVars, extVars >>
    \/ SubmitJoin /\ UNCHANGED << tokenVars, extVars >>
    \/ SubmitDeleteStorage /\ UNCHANGED << tokenVars, extVars >>
    \/ SubmitClearPath /\ UNCHANGED << tokenVars, extVars >>
    \/ SubmitSetPending /\ UNCHANGED << tokenVars, extVars >>
    \/ SubmitCatch /\ UNCHANGED << tokenVars, extVars >>
    \/ BatchCreate /\ UNCHANGED << tokenVars, extVars >>
    \/ \E p \in SelectedPlatforms, ok \in BOOLEAN :
          BatchUpload(p, ok) /\ UNCHANGED << tokenVars, extVars >>
    \/ BatchJoin /\ UNCHANGED << tokenVars, extVars >>
    \/ LoadPosts /\ UNCHANGED << tokenVars, extVars >>
    \/ CancelRetry /\ UNCHANGED << tokenVars, extVars >>
    \/ \E r \in RetryIds, p \in SelectedPlatforms :
          RetryStart(r, p) /\ UNCHANGED << tokenVars, extVars >>
    \/ \E r \in RetryIds, p \in SelectedPlatforms :
          RetryWithNewVideo(r, p) /\ UNCHANGED << tokenVars, extVars >>
    \/ \E r \in RetryIds, ok \in BOOLEAN :
          RetryUpload(r, ok) /\ UNCHANGED << tokenVars, extVars >>
    \/ \E r \in RetryIds : RetryCheck(r) /\ UNCHANGED << tokenVars, extVars >>
    \/ \E r \in RetryIds : RetryRemove(r) /\ UNCHANGED << tokenVars, extVars >>
    \/ \E r \in RetryIds : RetryClearPath(r) /\ UNCHANGED << tokenVars, extVars >>
    \/ DayPasses /\ UNCHANGED << tokenVars, extVars >>
    \/ Cleanup /\ UNCHANGED << tokenVars, extVars >>

Spec == Init /\ [][Next]_vars

(* the steps the server takes on its own once a request has arrived: the
   process, retry and cleanup handlers run to their end *)
ServerNext ==
    /\ \/ \E p \in SelectedPlatforms : ProcessDownload(p)
       \/ \E p \in SelectedPlatforms, ok \in BOOLEAN : ProcessUpload(p, ok)
       \/ \E r \in RetryIds, ok \in BOOLEAN : RetryUpload(r, ok)
       \/ \E r \in RetryIds : RetryCheck(r)
       \/ \E r \in RetryIds : RetryRemove(r)
       \/ \E r \in RetryIds : RetryClearPath(r)
    /\ UNCHANGED << tokenVars, extVars >>

(* the handlers end; the pages (the upload page after its requests, the
   dashboards) may take their next step or never take it *)
SpecServerFair == Spec /\ WF_vars(ServerNext)

NextToken ==
    \/ \E p \in TokenPlatforms, e \in ExpiresIn :
          SaveConnection(p, e) /\ UNCHANGED << orchVars, extVars >>
    \/ \E p \in TokenPlatforms : Disconnect(p) /\ UNCHANGED << orchVars, extVars >>
    \/ Tick /\ UNCHANGED << orchVars, extVars >>
    \/ \E p \in TokenPlatforms, ok \in BOOLEAN, e \in ExpiresIn :
          GetToken(p, ok, e) /\ UNCHANGED << orchVars, extVars >>

SpecToken == Init /\ [][NextToken]_vars

(* the Facebook and Instagram connections and the Instagram lookup *)
NextInstagram ==
    \/ \E e \in ExpiresIn : SaveConnection("facebook", e) /\ UNCHANGED << orchVars, extVars >>
    \/ \E e \in ExpiresIn : SaveInstagramConnection(e) /\ UNCHANGED << orchVars, extVars >>
    \/ \E p \in {"facebook", "instagram"} : Disconnect(p) /\ UNCHANGED << orchVars, extVars >>
    \/ Tick /\ UNCHANGED << orchVars, extVars >>
    \/ \E ok \in BOOLEAN, e \in ExpiresIn :
          GetInstagramToken(ok, e) /\ UNCHANGED << orchVars, extVars >>

SpecInstagram == Init /\ [][NextInstagram]_vars

(* the TikTok connection and the TikTok metadata update *)
NextTikTokUpdate ==
    \/ \E e \in ExpiresIn : SaveConnection("tiktok", e) /\ UNCHANGED << orchVars, extVars >>
    \/ Disconnect("tiktok") /\ UNCHANGED << orchVars, extVars >>
    \/ Tick /\ UNCHANGED << orchVars, extVars >>
    \/ \E ok \in BOOLEAN, e \in ExpiresIn :
          UpdateTikTokVideoMetadata(ok, e) /\ UNCHANGED << orchVars, extVars >>

SpecTikTokUpdate == Init /\ [][NextTikTokUpdate]_vars

(* a post published through the batch route, and edits of its metadata *)
NextMetadata ==
    \/ BatchCreate /\ UNCHANGED << tokenVars, extVars >>
    \/ \E p \in SelectedPlatforms, ok \in BOOLEAN :
          BatchUpload(p, ok) /\ UNCHANGED << tokenVars, extVars >>
    \/ BatchJoin /\ UNCHANGED << tokenVars, extVars >>
    \/ \E req \in MetadataRequests :
          UpdateMetadataBegin(req) /\ UNCHANGED << orchVars, tokenVars, pureVars >>
    \/ \E p \in SelectedPlatforms, ok \in BOOLEAN :
          PlatformUpdate(p, ok) /\ UNCHANGED << orchVars, tokenVars, pureVars >>
    \/ UpdateMetadataRespond /\ UNCHANGED << orchVars, tokenVars, pureVars >>

SpecMetadata == Init /\ [][NextMetadata]_vars

(* the six routes receiving requests with and without a session and with and
   without their fields, around one post published through either path *)
(* one execution of the retry route at a time *)
FirstRetry == 1

(* the edits of one value that ask for YouTube alone *)
YouTubeEdits ==
    {[op |-> req.op, auth |-> req.auth, missing |-> req.missing,
      values |-> "edit1", platforms |-> {"youtube"}] :
        req \in Requests("metadata")}

NextRequests ==
    \/ \E req \in Requests("create") :
          CreatePostRequest(req) /\ UNCHANGED << tokenVars, pureVars >>
    \/ SubmitUploadToStorage /\ UNCHANGED << tokenVars, extVars >>
    \/ SubmitStorePath /\ UNCHANGED << tokenVars, extVars >>
    \/ \E req \in Requests("process") :
          ProcessRequest(req) /\ UNCHANGED << tokenVars, pureVars >>
    \/ \E p \in SelectedPlatforms, ok \in BOOLEAN :
          ProcessUpload(p, ok) /\ UNCHANGED << tokenVars, extVars >>
    \/ SubmitJoin /\ UNCHANGED << tokenVars, extVars >>
    \/ SubmitDeleteStorage /\ UNCHANGED << tokenVars, extVars >>
    \/ SubmitClearPath /\ UNCHANGED << tokenVars, extVars >>
    \/ SubmitSetPending /\ UNCHANGED << tokenVars, extVars >>
    \/ SubmitCatch /\ UNCHANGED << tokenVars, extVars >>
    \/ \E req \in Requests("batch") :
          BatchRequest(req) /\ UNCHANGED << tokenVars, pureVars >>
    \/ \E p \in SelectedPlatforms, ok \in BOOLEAN :
          BatchUpload(p, ok) /\ UNCHANGED << tokenVars, extVars >>
    \/ BatchJoin /\ UNCHANGED << tokenVars, extVars >>
    \/ LoadPosts /\ UNCHANGED << tokenVars, extVars >>
    \/ \E req \in Requests("retry") :
          RetryRequest(FirstRetry, req) /\ UNCHANGED << tokenVars, pureVars >>
    \/ \E ok \in BOOLEAN :
          RetryUpload(FirstRetry, ok) /\ UNCHANGED << tokenVars, extVars >>
    \/ RetryCheck(FirstRetry) /\ UNCHANGED << tokenVars, extVars >>
    \/ RetryRemove(FirstRetry) /\ UNCHANGED << tokenVars, extVars >>
    \/ RetryClearPath(FirstRetry) /\ UNCHANGED << tokenVars, extVars >>
    \/ \E req \in YouTubeEdits :
          UpdateMetadataBegin(req) /\ UNCHANGED << orchVars, tokenVars, pureVars >>
    \/ \E p \in SelectedPlatforms, ok \in BOOLEAN :
          PlatformUpdate(p, ok) /\ UNCHANGED << orchVars, tokenVars, pureVars >>
    \/ UpdateMetadataRespond /\ UNCHANGED << orchVars, tokenVars, pureVars >>
    \/ \E req \in ScheduleRequests :
          UpdateSchedule(req) /\ UNCHANGED << orchVars, tokenVars, pureVars >>

SpecRequests == Init /\ [][NextRequests]_vars

(* the tag validator applied to each tag list, and to its result *)
InitValidate ==
    InitOrch /\ InitToken /\ InitEdit /\ InitTagInputs /\ InitChunk /\ InitDate
        /\ InitUpload /\ InitLog

NextTags ==
    \/ ValidateTags
          /\ UNCHANGED << orchVars, tokenVars, editVars, chunkVars, dateVars,
                          uploadVars, retryLog >>
    \/ RevalidateTags
          /\ UNCHANGED << orchVars, tokenVars, editVars, chunkVars, dateVars,
                          uploadVars, retryLog >>

SpecTags == InitValidate /\ [][NextTags]_vars

(* create-post with each local time in each zone *)
InitCreate ==
    InitOrch /\ InitToken /\ InitEdit /\ InitTags /\ InitChunk
        /\ InitSchedules /\ InitUpload /\ InitLog

NextCreate ==
    CreatePostAt
        /\ UNCHANGED << tokenVars, editVars, tagVars, chunkVars, uploadVars,
                        retryLog >>

SpecCreate == InitCreate /\ [][NextCreate]_vars

(* the retries of a post whose page ended with two failed platforms *)
InitRetries ==
    InitTwoFailed /\ InitToken /\ InitEdit /\ InitTags /\ InitChunk
        /\ InitDate /\ InitUpload /\ InitLog

NextRetries ==
    /\ \/ /\ \E r \in RetryIds, p \in SelectedPlatforms :
                 /\ retryLog.started[p] < MaxLogged
                 /\ RetryStart(r, p) \/ RetryWithNewVideo(r, p)
          /\ Logged
       \/ (\E r \in RetryIds, ok \in BOOLEAN : RetryUpload(r, ok)) /\ Logged
       \/ (\E r \in RetryIds : RetryCheck(r)) /\ UNCHANGED retryLog
       \/ (\E r \in RetryIds : RetryRemove(r)) /\ UNCHANGED retryLog
       \/ (\E r \in RetryIds : RetryClearPath(r)) /\ UNCHANGED retryLog
       \/ CancelRetry /\ UNCHANGED retryLog
       \/ DayPasses /\ UNCHANGED retryLog
       \/ Cleanup /\ UNCHANGED retryLog
    /\ UNCHANGED << tokenVars, editVars, tagVars, chunkVars, dateVars,
                    uploadVars >>

SpecRetries == InitRetries /\ [][NextRetries]_vars

(* the two chunked uploads, of each file *)
InitUploads ==
    InitOrch /\ InitToken /\ InitEdit /\ InitTags /\ InitChunk /\ InitDate
        /\ InitFiles /\ InitLog

NextUpload ==
    /\ \/ FacebookBegin
       \/ \E outcome \in StartOutcomes : FacebookStart(outcome)
       \/ \E outcome \in Outcomes : FacebookTransfer(outcome)
       \/ \E outcome \in Outcomes : FacebookFinish(outcome)
       \/ \E ok \in BOOLEAN : TikTokInit(ok)
       \/ \E ok \in BOOLEAN : TikTokChunk(ok)
    /\ UNCHANGED << orchVars, tokenVars, editVars, tagVars, chunkVars,
                    dateVars, retryLog >>

SpecUpload == InitUploads /\ [][NextUpload]_vars

(* every request of the adapters returns or times out: an adapter that can
   take a step takes one *)
SpecUploadFair == SpecUpload /\ WF_vars(NextUpload)

(* the chunk size selector applied to each file size *)
InitChunks ==
    InitOrch /\ InitToken /\ InitEdit /\ InitTags /\ InitFileSizes /\ InitDate
        /\ InitUpload /\ InitLog

NextChunks ==
    ChooseChunkSize
        /\ UNCHANGED << orchVars, tokenVars, editVars, tagVars, dateVars,
                        uploadVars, retryLog >>

SpecChunks == InitChunks /\ [][NextChunks]_vars

----------------------------------------------------------------------------
(* Claims about the publish orchestrator *)

RetriesIdle == \A r \in RetryIds : retry[r].pc = "idle"

(* the blobs removed by the upload page or by a retry, not by the cleanup *)
RemovedByOrchestrator == {x \in removed : x.by # "cleanup"}

(* the fan-out has joined, b's adapter has thrown in it and at every call
   since (no video id was ever written for b), and no other adapter threw *)
OnlyAlwaysThrows(b) ==
    /\ submit.pc = "done"
    /\ RetriesIdle
    /\ proc[b] = "threw"
    /\ post_platforms[b].platform_video_id = NULL
    /\ \A a \in SelectedPlatforms \ {b} : proc[a] # "threw"

(* C1: fan-out isolation.  When the post goes to three platforms and only
   B's adapter throws (always), the adapters of the other two were invoked
   and returned, their rows end 'uploaded', B's row ends 'failed', and the
   blob was not deleted by the page or by a retry: the post keeps a path, and
   the blob is stored under it unless the cleanup took it. *)
C1_FanoutIsolation ==
    \A b \in SelectedPlatforms :
        OnlyAlwaysThrows(b) =>
            /\ \A a \in SelectedPlatforms \ {b} :
                   /\ proc[a] = "ok"
                   /\ post_platforms[a].status = "uploaded"
            /\ post_platforms[b].status = "failed"
            /\ RemovedByOrchestrator = {}
            /\ submit.filePath # NoPath =>
                   /\ video_file_path # NoPath
                   /\ video_file_path \in storage \/
                      [path |-> video_file_path, by |-> "cleanup"] \in removed

(* C1 witness: the storage-mediated fan-out has ended with facebook's
   adapter having thrown and the other two uploaded *)
C1_Witness ==
    /\ OnlyAlwaysThrows("facebook")
    /\ submit.filePath # NoPath
    /\ submit.filePath \in storage
    /\ post_platforms["youtube"].status = "uploaded"

(* a blob was stored for the post *)
BlobStored == nextPath > 1

SomeFailed == \E p \in SelectedPlatforms : post_platforms[p].status = "failed"

(* C2: the blob of a post has been deleted only if every selected platform
   is 'uploaded' or 'published'; while a platform is 'failed' the post keeps
   its path and the blob is stored under it. *)
C2_BlobKeptUntilAllUploaded ==
    BlobStored =>
        /\ storage = {} => AllUploaded(post_platforms)
        /\ SomeFailed => /\ video_file_path # NoPath
                         /\ video_file_path \in storage

(* handler r answers success in this step *)
RetrySucceeds(r) ==
    /\ retry[r].pc \in {"check", "clear"}
    /\ retry'[r].pc = "idle"

(* exactly b's request failed in the fan-out, which has ended and has left
   its blob in storage *)
OnlyFailedInFanout(b) ==
    /\ submit.pc = "done"
    /\ submit.filePath # NoPath
    /\ Failures(proc) = {b}

(* C3: after a fan-out in which exactly B failed (the post is 'failed', the
   blob is retained), a retry of B that uploads the retained blob and answers
   success leaves the post 'pending' and the blob deleted, by one removal. *)
C3_RetryAfterFanout ==
    [][\A r \in RetryIds, b \in SelectedPlatforms :
          ( /\ OnlyFailedInFanout(b)
            /\ retry[r].platform = b
            /\ retry[r].post_status = "failed"
            /\ retry[r].videoFilePath = submit.filePath
            /\ RetrySucceeds(r) )
          => /\ post_status' = "pending"
             /\ retry[r].videoFilePath \notin storage'
             /\ Cardinality({x \in removed' :
                                x.path = retry[r].videoFilePath}) = 1
      ]_vars

(* C4: while the post is 'pending', every row that has a platform video id
   is 'uploaded' or 'published'. *)
C4_PendingMeansUploaded ==
    post_status = "pending" =>
        \A p \in SelectedPlatforms :
            post_platforms[p].platform_video_id # NULL =>
                Done(post_platforms[p].status)

(* the status changes a row may make *)
AllowedTransitions ==
    { <<"none", "pending">>, <<"pending", "uploaded">>,
      <<"pending", "failed">>, <<"failed", "pending">> }

(* C5: a row's status changes only pending -> uploaded, pending -> failed or
   failed -> pending; an 'uploaded' or 'published' row never goes back to
   'pending' or 'failed'. *)
C5_RowTransitions ==
    [][\A p \in SelectedPlatforms :
          \/ post_platforms'[p].status = post_platforms[p].status
          \/ << post_platforms[p].status, post_platforms'[p].status >>
                \in AllowedTransitions
      ]_vars

(* C6: the post is 'uploading' when created; once every row is 'uploaded'
   or 'published' and no upload or retry request of the post is in flight,
   the post is 'pending'. *)
C6_DerivedPostStatus ==
    /\ submit.pc = "created" => post_status = "uploading"
    /\ ( /\ submit.pc = "done"
         /\ RetriesIdle
         /\ AllUploaded(post_platforms) ) => post_status = "pending"

----------------------------------------------------------------------------
(* Claims about the token manager *)

(* getValidAccessToken(user, p) is called in this step *)
Called(p) == call'.seq # call.seq /\ call'.platform = p

(* C7: a call for a connected platform calls the token endpoint exactly when
   the stored token expires in less than 5 minutes: with 3 minutes left the
   endpoint is called, with 10 minutes left (5 or more) it is not, the stored
   token is returned and the row stays as it was. *)
C7_RefreshExactlyWhenNearExpiry ==
    [][\A p \in TokenPlatforms :
          (Called(p) /\ connections[p].connected) =>
              LET left == connections[p].expires_at - now
              IN  /\ call'.refresh # "none" <=> left < 5
                  /\ left >= 5 =>
                         /\ call'.outcome = "token"
                         /\ call'.returned = connections[p].access_token
                         /\ connections'[p] = connections[p]
                         /\ nextToken' = nextToken
      ]_vars

(* C7 witness: the last call found a YouTube token with 3 minutes left and
   called the token endpoint *)
C7_Witness ==
    /\ call.platform = "youtube"
    /\ call.remaining = 3
    /\ call.refresh = "ok"

(* C8: on every platform, when the refresh of a near-expiry token fails the
   call still returns: the token it returns is the stored one and the row
   stays as it was. *)
C8_RefreshFailureReturnsStoredToken ==
    [][\A p \in TokenPlatforms :
          (Called(p) /\ call'.refresh = "failed") =>
              /\ call'.outcome = "token"
              /\ call'.returned = connections[p].access_token
              /\ connections'[p] = connections[p]
      ]_vars

(* C8 witness: the refresh of a near-expiry Facebook token has failed *)
C8_Witness ==
    /\ call.platform = "facebook"
    /\ call.refresh = "failed"
    /\ call.remaining < 5

(* C9: when the token endpoint answers a refresh, the row holds the new
   access token and the new expiry, the other columns as before, and the
   token returned is the new one, equal to the stored one. *)
C9_RefreshSuccessPersisted ==
    [][\A p \in TokenPlatforms :
          (Called(p) /\ call'.refresh = "ok") =>
              /\ call'.outcome = "token"
              /\ call'.returned = nextToken
              /\ call'.returned # connections[p].access_token
              /\ connections'[p].access_token = call'.returned
              /\ connections'[p].expires_at = now + call'.expires_in
              /\ connections'[p].refresh_token = connections[p].refresh_token
              /\ connections'[p].connected
      ]_vars

(* C9 witness: the last call refreshed the Facebook token, and the row holds
   the token it returned and the new expiry *)
C9_Witness ==
    /\ call.platform = "facebook"
    /\ call.refresh = "ok"
    /\ connections["facebook"].access_token = call.returned
    /\ connections["facebook"].expires_at = now + call.expires_in

(* C10: a call for a platform that has no connection row fails with the
   not-connected error, calls no token endpoint and writes nothing. *)
C10_NotConnected ==
    [][\A p \in TokenPlatforms :
          (Called(p) /\ ~connections[p].connected) =>
              /\ call'.outcome = "notConnected"
              /\ call'.refresh = "none"
              /\ call'.returned = NoToken
              /\ nextToken' = nextToken
              /\ connections' = connections
      ]_vars

(* C10 witness: the last call asked for TikTok, which has no row, and ended
   with the not-connected error *)
C10_Witness ==
    /\ call.platform = "tiktok"
    /\ call.outcome = "notConnected"
    /\ ~connections["tiktok"].connected

(* C11 as stated: the Instagram lookup returns the Instagram row's own token
   whenever that row exists, the Facebook connection's token when only the
   Facebook row exists, and fails with the not-connected error only when
   neither row exists. *)
C11_InstagramLookup ==
    [][Called("instagram") =>
          LET ig == connections["instagram"]
              fb == connections["facebook"]
          IN  /\ ig.connected =>
                     /\ call'.outcome = "token"
                     /\ call'.returned = ig.access_token
              /\ (~ig.connected /\ fb.connected) =>
                     /\ call'.outcome = "token"
                     /\ call'.returned = connections'["facebook"].access_token
              /\ call'.outcome = "notConnected" <=>
                     (~ig.connected /\ ~fb.connected)
      ]_vars

(* C11 amended: the lookup returns the Instagram row's own token when that
   row exists with more than 5 minutes left, and then calls no endpoint and
   writes nothing; otherwise (no Instagram row, or 5 minutes or less left) it
   is the Facebook lookup: the Facebook row's token, refreshed when it has
   less than 5 minutes left, and the not-connected error exactly when there
   is no Facebook row. *)
C11_InstagramLookupAmended ==
    [][Called("instagram") =>
          LET ig == connections["instagram"]
              fb == connections["facebook"]
          IN  IF ig.connected /\ ig.expires_at - now > 5
              THEN /\ call'.outcome = "token"
                   /\ call'.returned = ig.access_token
                   /\ call'.refresh = "none"
                   /\ connections' = connections
              ELSE /\ connections'["instagram"] = ig
                   /\ call'.outcome = "notConnected" <=> ~fb.connected
                   /\ fb.connected =>
                          /\ call'.outcome = "token"
                          /\ call'.refresh # "none" <=> fb.expires_at - now < 5
                          /\ call'.returned =
                                 connections'["facebook"].access_token
                          /\ call'.refresh # "ok" =>
                                 connections'["facebook"] = fb
                   /\ ~fb.connected => connections' = connections
      ]_vars

(* C11 witness: the last lookup found an Instagram row with 5 minutes or less
   left and returned the token of the Facebook row, which differs from the
   Instagram row's *)
C11_Witness ==
    /\ call.platform = "instagram"
    /\ call.outcome = "token"
    /\ connections["instagram"].connected
    /\ call.remaining <= 5
    /\ call.returned = connections["facebook"].access_token
    /\ call.returned # connections["instagram"].access_token

(* C12: every call of the TikTok metadata update fails with the
   "unsupported" error and changes no stored state (no connection row, no
   post, no row, no blob). *)
C12_TikTokUpdateUnsupported ==
    [][Called("tiktok") =>
          /\ call'.outcome = "unsupported"
          /\ connections' = connections
          /\ UNCHANGED << orchVars, extVars >>
      ]_vars

(* C12 witness: the last update call found a TikTok token with less than 5
   minutes left, refreshed it and then threw the "unsupported" error *)
C12_Witness ==
    /\ call.platform = "tiktok"
    /\ call.outcome = "unsupported"
    /\ call.refresh = "ok"
    /\ call.remaining < 5

----------------------------------------------------------------------------
(* Claims about the metadata edit *)

(* the number of entries of the error list that are about platform p *)
EntriesAbout(errors, p) ==
    Cardinality({i \in 1..Len(errors) : errors[i] = p})

(* C13: an accepted update-metadata request stores the new title,
   description and tags on the post and starts one update for every row
   that has a video id and is 'uploaded' or 'published' (among the platforms
   asked for); an update that throws adds one entry to the error list and
   takes no other update away; the route then answers success with one entry
   per platform whose update threw, every eligible update having been
   called. *)
C13_PartialSuccess ==
    [][/\ (edit.pc = "idle" /\ edit'.pc = "updating") =>
             /\ metadata' = edit'.requested
             /\ edit'.called = {}
             /\ edit'.todo =
                    {p \in SelectedPlatforms :
                        /\ post_platforms[p].platform_video_id # NULL
                        /\ post_platforms[p].status \in {"uploaded", "published"}
                        /\ edit'.platforms = {} \/ p \in edit'.platforms}
       /\ (edit.pc = "updating" /\ edit'.pc = "updating") =>
             /\ edit'.todo \cup edit'.called = edit.todo \cup edit.called
             /\ metadata' = metadata
             /\ \A p \in SelectedPlatforms :
                    EntriesAbout(edit'.errors, p) =
                        IF p \in edit'.threw THEN 1 ELSE 0
       /\ (edit.pc = "updating" /\ edit'.pc = "idle") =>
             /\ edit.todo = {}
             /\ response'.status = 200
             /\ response'.success
             /\ metadata' = edit.requested
             /\ response'.called = edit.called
             /\ Len(response'.errors) = Cardinality(edit.threw)
             /\ \A p \in SelectedPlatforms :
                    EntriesAbout(response'.errors, p) =
                        IF p \in edit.threw THEN 1 ELSE 0
      ]_vars

(* C13 witness: the route answered success after the updates of two
   platforms threw and the update of the third went through *)
C13_Witness ==
    /\ response.status = 200
    /\ response.success
    /\ Len(response.errors) = 2
    /\ response.called = SelectedPlatforms
    /\ metadata = response.requested
    /\ metadata # "created"

----------------------------------------------------------------------------
(* Claims about the requests *)

(* the request has no session or lacks a field its route requires *)
Lacking(req) == ~req.auth \/ req.missing \in RequiredFields(req.op)

(* the route rejected the request: it answered 401 or 400, started no
   platform call and left the post, its rows, the blobs and every handler as
   they were *)
RejectedUntouched(op) ==
    /\ response'.op = op
    /\ response'.status \in {400, 401}
    /\ response'.called = {}
    /\ UNCHANGED << orchVars, metadata, scheduled_at, edit >>

(* the step is route op receiving request req *)
Receives(op, req) ==
    CASE op = "create" -> CreatePostRequest(req)
      [] op = "batch" -> BatchRequest(req)
      [] op = "process" -> ProcessRequest(req)
      [] op = "retry" -> RetryRequest(FirstRetry, req)
      [] op = "metadata" -> UpdateMetadataBegin(req) /\ UNCHANGED orchVars
      [] op = "schedule" -> UpdateSchedule(req) /\ UNCHANGED orchVars

(* the requests route op is sent *)
Sent(op) ==
    CASE op = "metadata" -> YouTubeEdits
      [] op = "schedule" -> ScheduleRequests
      [] OTHER -> Requests(op)

(* the requests route op is sent that have no session or lack a required
   field *)
LackingRequests(op) == {req \in Sent(op) : Lacking(req)}

(* C14: on each of the six routes (create-post, batch upload, process-upload,
   retry-upload, update-metadata, update-schedule), a request without a
   session or without a required field is rejected before any platform call
   is made and before the post, a platform row or a blob is changed. *)
C14_RejectedBeforeAnyEffect ==
    [][response' # response /\ response'.op \in Operations
          => LET op == response'.op
             IN  \/ RejectedUntouched(op)
                 \/ ~ \E req \in LackingRequests(op) : Receives(op, req)]_vars

(* a request was rejected while the post had an uploaded row, a failed row
   and its blob in storage, and an accepted edit had changed its values *)
C14_Witness ==
    /\ response.status \in {400, 401}
    /\ response.op = "retry"
    /\ \E p \in SelectedPlatforms : post_platforms[p].status = "uploaded"
    /\ \E p \in SelectedPlatforms : post_platforms[p].status = "failed"
    /\ video_file_path # NoPath
    /\ video_file_path \in storage
    /\ metadata = "edit1"
    /\ scheduled_at = "future"

----------------------------------------------------------------------------
(* Claims about the retry *)

(* the retry has no blob: neither a supplied nor a stored path, or no blob
   under the path in the store the download reads *)
BlobUnobtainable(newFilePath, store) ==
    LET path == IF newFilePath # NoPath THEN newFilePath ELSE video_file_path
    IN  path = NoPath \/ path \notin store

(* the retry answered requiresVideo for platform p (the page then offers
   "Retry with New Video" for it), called no adapter and wrote nothing *)
RequiresVideo(p) ==
    /\ retryingPlatform' = p
    /\ UNCHANGED << retry, post_platforms, post_status, video_file_path,
                    storage >>

(* C15: a retry whose blob cannot be obtained (no stored or supplied path, or
   the download fails) answers requiresVideo, calls no platform adapter, and
   leaves the row's status and error message, the post's status and the
   post's stored path unchanged; and requiresVideo is answered in no other
   case. *)
C15_NoBlobRequiresVideo ==
    [][/\ \A r \in RetryIds, p \in SelectedPlatforms :
            /\ RetryStart(r, p) /\ BlobUnobtainable(NoPath, storage)
                   => RequiresVideo(p)
            /\ RetryWithNewVideo(r, p) /\ BlobUnobtainable(nextPath, storage')
                   => RequiresVideo(p)
       /\ retryingPlatform' # retryingPlatform /\ retryingPlatform' # NULL
            => /\ BlobUnobtainable(NoPath, storage)
               /\ RequiresVideo(retryingPlatform')]_vars

(* requiresVideo was answered for a failed row whose post has a stored path
   but no blob under it, and no retry is running *)
C15_Witness ==
    /\ retryingPlatform # NULL
    /\ post_platforms[retryingPlatform].status = "failed"
    /\ post_platforms[retryingPlatform].error_message # NULL
    /\ video_file_path # NoPath
    /\ video_file_path \notin storage
    /\ \A r \in RetryIds : retry[r].pc = "idle"

(* every row of the post is 'uploaded' or 'published' *)
EveryRowDone(rows) ==
    \A p \in SelectedPlatforms : rows[p].status \in {"uploaded", "published"}

(* retry r's adapter call returned: its row is 'uploaded' with the video id
   and no error message *)
RetryRowUploaded(r) ==
    retry[r].pc = "uploading" /\ retry'[r].pc = "check"
        => post_platforms'[retry[r].platform] =
              [status |-> "uploaded", platform_video_id |-> "video",
               error_message |-> NULL]

(* once the post is 'pending', retry r deletes the blob it used and then
   clears the post's stored path *)
RetryCleansUp(r) ==
    /\ retry[r].pc = "remove" /\ retry'[r] # retry[r]
           => /\ retry[r].videoFilePath \notin storage'
              /\ retry'[r].pc = "clear"
    /\ retry[r].pc = "clear" /\ retry'[r] # retry[r]
           => video_file_path' = NoPath

(* C16: a retry whose adapter call succeeds sets its row to 'uploaded' with
   the new video id and a null error message; if every row of the post is
   uploaded or published after that update, the same retry sets the post to
   'pending', deletes the blob it used and clears the post's stored path. *)
C16_RetrySuccess ==
    [][\A r \in RetryIds :
          /\ RetryRowUploaded(r)
          /\ retry[r].pc = "check" /\ retry'[r] # retry[r]
                 /\ retry[r].allUploaded
                 => post_status' = "pending" /\ retry'[r].pc = "remove"
          /\ RetryCleansUp(r)]_vars

(* C16 as amended: the condition is the one the retry finds when it reads
   the rows again after its update; a row that another request has reset in
   between keeps the post as it is. *)
C16_RetrySuccessAmended ==
    [][\A r \in RetryIds :
          /\ RetryRowUploaded(r)
          /\ retry[r].pc = "check" /\ retry'[r] # retry[r]
                 => IF EveryRowDone(post_platforms)
                    THEN post_status' = "pending" /\ retry'[r].pc = "remove"
                    ELSE /\ retry'[r].pc = "idle"
                         /\ UNCHANGED << post_status, storage,
                                         video_file_path >>
          /\ RetryCleansUp(r)]_vars

(* a retry has uploaded the last failed row, set the post 'pending', deleted
   its blob and cleared the stored path *)
C16_Witness ==
    /\ post_status = "pending"
    /\ EveryRowDone(post_platforms)
    /\ video_file_path = NoPath
    /\ \E e \in removed : e.by = "retry" /\ e.path \notin storage
    /\ \A r \in RetryIds : retry[r].pc = "idle"

----------------------------------------------------------------------------
(* Claims about the chunk size *)

(* C20: the chunk size selector returns 2MB chunks for a 15MB file, 5MB
   chunks for a 50MB file, 10MB chunks for a 200MB file and 20MB chunks for a
   600MB file. *)
C20_ChunkSizeExamples ==
    chunkSize # 0 =>
        /\ fileSize = 15 * MB => chunkSize = 2 * MB
        /\ fileSize = 50 * MB => chunkSize = 5 * MB
        /\ fileSize = 200 * MB => chunkSize = 10 * MB
        /\ fileSize = 600 * MB => chunkSize = 20 * MB

(* the chunk size of a 50MB file has been chosen *)
C20_Witness ==
    /\ fileSize = 50 * MB
    /\ chunkSize = 5 * MB

----------------------------------------------------------------------------
(* Claims about the YouTube tags *)

(* C17: the YouTube tag validator is idempotent: applied to its own output
   it returns that output unchanged. *)
C17_ValidatorIdempotent ==
    tagPc = "revalidated" => revalidated = validTags

(* a list was validated, and so was the result, which kept a tag *)
C17_Witness ==
    /\ tagPc = "revalidated"
    /\ Len(validTags) > 0
    /\ revalidated = validTags

(* the length of the list as YouTube serializes it: each tag's length, 2 for
   every tag with a space, and a comma for every tag after the first *)
SerializedLength(list) ==
    LET Quotes(tag) == IF \E i \in 1..Len(tag) : tag[i] = " " THEN 2 ELSE 0
        Sum[i \in 0..Len(list)] ==
            IF i = 0 THEN 0
            ELSE Sum[i - 1] + Len(list[i]) + Quotes(list[i])
                     + (IF i > 1 THEN 1 ELSE 0)
    IN  Sum[Len(list)]

(* C18: for every input tag list, each tag the validator outputs has at most
   30 characters, and the combined serialized length of the output (each
   tag's length, plus 2 for every tag containing a space, plus 1 comma for
   every tag after the first) is at most 500. *)
C18_TagLengthLimits ==
    tagPc # "input" =>
        /\ \A i \in 1..Len(validTags) : Len(validTags[i]) <= 30
        /\ SerializedLength(validTags) <= 500

(* sixteen tags of 30 characters were kept and the next tag was dropped,
   because with it the list would have counted more than 500 *)
C18_Witness ==
    /\ tagPc = "validated"
    /\ Len(tags) = 17
    /\ Len(validTags) = 16
    /\ \A i \in 1..16 : Len(validTags[i]) = 30
    /\ ProcessedTag(tags[17]) # << >>
    /\ SerializedLength(validTags) <= 500
    /\ SerializedLength(Append(validTags, ProcessedTag(tags[17]))) > 500

(* the two tags are equal when case is ignored *)
EqualIgnoringCase(s, t) ==
    /\ Len(s) = Len(t)
    /\ \A i \in 1..Len(s) :
          \/ s[i] = t[i]
          \/ {s[i], t[i]} \in {{"a", "A"}, {"b", "B"}}

(* C19: for every input tag list, the validator's output contains no two
   tags that are equal ignoring case and no empty tag, every output tag
   consists only of alphanumeric characters, spaces, hyphens and
   underscores, and the first occurrence of a duplicated tag is the one
   kept. *)
C19_TagsUniqueAndClean ==
    tagPc # "input" =>
        LET processed ==
                SubSeq([j \in 1..Len(tags) |-> ProcessedTag(tags[j])],
                       1, Len(tags))
        IN  /\ \A i, j \in 1..Len(validTags) :
                  i # j => ~EqualIgnoringCase(validTags[i], validTags[j])
            /\ \A i \in 1..Len(validTags) :
                  /\ validTags[i] # << >>
                  /\ \A k \in 1..Len(validTags[i]) :
                        validTags[i][k] \in
                            {"a", "b", "A", "B", "1", " ", "-", "_"}
                  /\ \E j \in 1..Len(tags) :
                        /\ processed[j] = validTags[i]
                        /\ \A k \in 1..(j - 1) :
                              ~EqualIgnoringCase(processed[k], validTags[i])

(* of two tags that differ in case only, after the punctuation of the second
   is removed, the first was kept *)
C19_Witness ==
    /\ tagPc = "validated"
    /\ Len(tags) = 2
    /\ tags[1] # tags[2]
    /\ \E k \in 1..Len(tags[2]) : tags[2][k] = "!"
    /\ ProcessedTag(tags[1]) # ProcessedTag(tags[2])
    /\ EqualIgnoringCase(ProcessedTag(tags[1]), ProcessedTag(tags[2]))
    /\ validTags = << ProcessedTag(tags[1]) >>

----------------------------------------------------------------------------
(* Claims about create-post *)

(* C21: create-post with a naive local time in a non-UTC IANA timezone
   persists one post with status 'uploading' whose scheduled time is the UTC
   instant that displays as that local time in that timezone, and exactly one
   row per selected platform, each 'pending'. *)
C21_CreatePostPersists ==
    post_status # "none" =>
        /\ post_status = "uploading"
        /\ WallClock(timezone, scheduledDate) = scheduledAt
        /\ \A p \in SelectedPlatforms : post_platforms[p] = PendingRow

(* a post was created for a local time in Chicago on the day the clocks go
   back, with its rows pending *)
C21_Witness ==
    /\ post_status = "uploading"
    /\ timezone = "America/Chicago"
    /\ scheduledAt > ChicagoFallBack
    /\ \A p \in SelectedPlatforms : post_platforms[p] = PendingRow

(* C24: the chunk size is 2MB for files under 20MB, 5MB for files from 20MB
   to 100MB, 10MB for files from 100MB to 500MB and 20MB for files over 500MB;
   in particular a file of exactly 20MB gets 5MB chunks and a file just over
   500MB gets 20MB chunks. *)
C24_ChunkSizeTiers ==
    chunkSize # 0 =>
        /\ fileSize < 20 * MB => chunkSize = 2 * MB
        /\ fileSize = 20 * MB => chunkSize = 5 * MB
        /\ 20 * MB < fileSize /\ fileSize < 100 * MB => chunkSize = 5 * MB
        /\ 100 * MB < fileSize /\ fileSize < 500 * MB => chunkSize = 10 * MB
        /\ fileSize > 500 * MB => chunkSize = 20 * MB

(* the chunk size of a file of exactly 20MB has been chosen *)
C24_Witness ==
    /\ fileSize = 20 * MB
    /\ chunkSize # 0

----------------------------------------------------------------------------
(* Claims about concurrent retries *)

(* the adapter call of retry handler r returns or throws in this step *)
AdapterReturns(r) ==
    /\ retry[r].pc = "uploading"
    /\ retry'[r].pc # "uploading"

(* C28: two retry-upload requests for the same (post, platform) are not
   mutually excluded: both pass the checks and both invoke the platform
   adapter, and whenever the adapter call of one of them ends, the row becomes
   what that handler writes, whatever the other wrote before and while the
   other goes on: the final row is the one written last. *)
C28_LastWriteWins ==
    [][\A r \in RetryIds :
          AdapterReturns(r) =>
              LET p == retry[r].platform
              IN  /\ post_platforms'[p].status =
                         IF retry'[r].pc = "check" THEN "uploaded" ELSE "failed"
                  /\ \A q \in RetryIds \ {r} : retry'[q] = retry[q]]_vars

(* the first handler wrote 'uploaded' and has not answered yet; the second
   handler retried the same platform meanwhile, its adapter threw and the row
   is 'failed'; the process task of the platform had settled before *)
C28_Witness ==
    \E p \in SelectedPlatforms :
        /\ retry[1].pc = "check"
        /\ retry[1].platform = p
        /\ retry[2].pc = "idle"
        /\ Settled(proc[p])
        /\ post_platforms[p].status = "failed"

----------------------------------------------------------------------------
(* Claims about the schedule edit *)

(* the rows the handler read that have a video id and are 'uploaded' *)
UploadedWithVideo(rows) ==
    {p \in SelectedPlatforms :
        rows[p].platform_video_id # NULL /\ rows[p].status = "uploaded"}

(* the platforms named in the errors of the response *)
WarnedPlatforms == {response.errors[i] : i \in 1..Len(response.errors)}

(* C29: update-schedule persists the new scheduledAt on the post and calls a
   platform reschedule only for YouTube rows that have a video id and status
   'uploaded'; for the rows of Facebook and TikTok (Instagram takes the same
   branch) no platform call is made and no warning entry is returned. *)
C29_RescheduleOnlyYouTube ==
    [][response' # response /\ response'.op = "schedule"
          /\ response'.success
          => /\ scheduled_at' = response'.requested
             /\ response'.called =
                    UploadedWithVideo(post_platforms) \cap {"youtube"}
             /\ \A p \in SelectedPlatforms \ {"youtube"} :
                    /\ p \notin response'.called
                    /\ \A i \in 1..Len(response'.errors) :
                           response'.errors[i] # p]_vars

(* a schedule edit succeeded while the rows of YouTube and Facebook were
   uploaded: YouTube alone was called and nothing is reported for Facebook *)
C29_Witness ==
    /\ response.op = "schedule"
    /\ response.success
    /\ scheduled_at = response.requested
    /\ {"youtube", "facebook"} \subseteq UploadedWithVideo(post_platforms)
    /\ response.called = {"youtube"}
    /\ "facebook" \notin WarnedPlatforms

----------------------------------------------------------------------------
(* Claims about the chunked uploads *)

(* the Facebook adapter sends a request of this phase in this step *)
FacebookSends(phase) ==
    /\ fbUp.pc = phase
    /\ fbUp' # fbUp

(* the adapter has attempts left after the current one *)
AttemptsLeft ==
    fbUp.attempt + 1 < (IF OverMB(file.size, 100) THEN 5 ELSE 3)

(* C22: in the Facebook upload a failed Start is retried only when the
   platform marks the error as transient, at most maxRetries Start requests
   are sent in total (3, or 5 when the file is larger than 100MB), and a Start
   failure that is not marked transient fails the upload immediately with no
   further Start request. *)
C22_StartRetriedOnlyIfTransient ==
    [][FacebookSends("start") =>
          LET outcome == fbUp'.request.outcome
          IN  /\ fbUp'.starts <= (IF OverMB(file.size, 100) THEN 5 ELSE 3)
              /\ outcome # "ok" /\ fbUp'.pc = "start"
                     => outcome = "transient"
              /\ outcome = "permanent" => fbUp'.pc = "failed"]_vars

(* a Start request was answered with an error that is not transient and the
   adapter is about to send the next Start request *)
C22_Witness ==
    /\ fbUp.request.phase = "start"
    /\ fbUp.request.outcome = "permanent"
    /\ fbUp.pc = "start"
    /\ fbUp.starts = 1

(* C23: in the Facebook upload each chunk is sent at most 3 times, a chunk is
   sent again only after a transient error, and when a chunk has used up its
   retries the whole upload fails without any further chunk transfer or new
   upload session. *)
C23_ChunkRetries ==
    [][FacebookSends("transfer") =>
          LET outcome == fbUp'.request.outcome
          IN  /\ fbUp.retry + 1 <= 3
              /\ fbUp'.pc = "transfer" /\ fbUp'.chunkIndex = fbUp.chunkIndex
                     => outcome = "transient"
              /\ outcome # "ok" /\ fbUp.retry + 1 = 3
                     => fbUp'.pc = "failed"]_vars

(* a chunk failed three times in the first session and the adapter is about
   to open another session *)
C23_Witness ==
    /\ fbUp.request.phase = "transfer"
    /\ fbUp.request.outcome # "ok"
    /\ fbUp.pc = "start"
    /\ fbUp.sessions = 1
    /\ fbUp.attempt = 1

(* at most 100MB *)
AtMost100MB(size) == size.mb < 100 \/ (size.mb = 100 /\ size.b = 0)

(* C25: the wait before phase-level retry number attempt (from 0) is
   base_delay * 2^attempt, with base_delay 2000ms for files of at most 100MB
   and 5000ms above; the wait before chunk-level retry number retry (from 0)
   is (retry+1) * 2000ms. *)
C25_BackoffDelays ==
    /\ fbUp.wait.kind = "phase" =>
           /\ fbUp.wait.n = fbUp.attempt - 1
           /\ fbUp.wait.ms = (IF AtMost100MB(file.size) THEN 2000 ELSE 5000)
                                 * 2 ^ fbUp.wait.n
    /\ fbUp.wait.kind = "chunk" =>
           /\ fbUp.wait.n = fbUp.retry - 1
           /\ fbUp.wait.ms = (fbUp.wait.n + 1) * 2000

(* the adapter waited 40 seconds before the fifth attempt on a large file *)
C25_Witness ==
    /\ fbUp.wait.kind = "phase"
    /\ fbUp.wait.n = 3
    /\ fbUp.wait.ms = 40000
    /\ ~AtMost100MB(file.size)

(* C26: in the Facebook upload a timeout of a Start, Transfer or Finish
   request is a failure that is retried: it uses up one unit of the chunk
   budget (Transfer) or of the attempt budget (Start, Finish, and a Transfer
   whose chunk budget is used up), and the upload fails only when that budget
   is used up. *)
C26_TimeoutIsRetried ==
    [][\A phase \in {"start", "transfer", "finish"} :
          FacebookSends(phase) /\ fbUp'.request.outcome = "timeout" =>
              IF phase = "transfer" /\ fbUp.retry + 1 < 3
              THEN /\ fbUp'.pc = "transfer"
                   /\ fbUp'.retry = fbUp.retry + 1
                   /\ fbUp'.attempt = fbUp.attempt
                   /\ fbUp'.startOffset = fbUp.startOffset
              ELSE IF AttemptsLeft
              THEN /\ fbUp'.pc = "start"
                   /\ fbUp'.attempt = fbUp.attempt + 1
              ELSE fbUp'.pc = "failed"]_vars

(* the Finish request timed out and the adapter starts over *)
C26_Witness ==
    /\ fbUp.request.phase = "finish"
    /\ fbUp.request.outcome = "timeout"
    /\ fbUp.pc = "start"
    /\ fbUp.attempt = 1

(* the file is larger than the limit: 1000MB for REELS, 4096MB otherwise *)
TooLarge ==
    LET limit == IF file.videoType = "REELS" THEN 1000 ELSE 4096
    IN  file.size.mb > limit \/ (file.size.mb = limit /\ file.size.b > 0)

(* C27: the Facebook upload rejects a file larger than 1000MB when the
   sub-type is REELS and larger than 4096MB otherwise, before any upload
   session is started or any chunk is sent. *)
C27_SizeLimit ==
    fbUp.pc # "idle" =>
        /\ fbUp.pc = "rejected" <=> TooLarge
        /\ fbUp.pc = "rejected" =>
               /\ fbUp.starts = 0
               /\ fbUp.sessions = 0
               /\ fbUp.request = NoRequest

(* a regular video of 4096MB and a byte was rejected *)
C27_Witness ==
    /\ fbUp.pc = "rejected"
    /\ file.videoType = "VIDEO"
    /\ file.size = Around(4096, 1)

(* n chunks of the given size, as a byte count *)
Times(n, chunk) ==
    LET bytes == n * (chunk % MB)
    IN  ByteCount(n * (chunk \div MB) + bytes \div MB, bytes % MB)

(* n = ceil(size / chunk) *)
IsCeil(n, size, chunk) ==
    IF n = 0 THEN size = Zero
    ELSE Less(Times(n - 1, chunk), size) /\ ~Less(Times(n, chunk), size)

(* the chunk request after request before, which was answered accepted or
   not: the first chunk starts at 0, the next one where the accepted one
   ended, a chunk sent again where it started; it ends after its start and
   within the file *)
ChunkInOrder(before, chunk, size) ==
    /\ chunk.from = IF before.phase # "transfer" THEN Zero
                    ELSE IF before.outcome = "ok" THEN before.to
                    ELSE before.from
    /\ Less(chunk.from, chunk.to)
    /\ ~Less(size, chunk.to)

(* C30: in the Facebook and TikTok chunked transfers the chunks are sent in
   increasing offset order: the first chunk starts at offset 0, each next
   chunk starts where the previous one ended, the last chunk ends at the file
   size, and the number of chunks sent is ceil(file size / chunk size), which
   for TikTok is the total_chunk_count declared at init. *)
C30_ChunksContiguous ==
    [][/\ FacebookSends("transfer") =>
              ChunkInOrder(fbUp.request, fbUp'.request, file.size)
       /\ fbUp'.pc = "finish" /\ fbUp.pc # "finish" =>
              /\ fbUp'.startOffset = file.size
              /\ fbUp.pc = "transfer" => fbUp'.request.to = file.size
              /\ IsCeil(fbUp'.chunkIndex, file.size,
                        getOptimalChunkSize(Bytes(file.size)))
       /\ ttUp.pc = "upload" /\ ttUp' # ttUp =>
              ChunkInOrder(ttUp.request, ttUp'.request, file.size)
       /\ ttUp'.pc = "done" /\ ttUp.pc # "done" =>
              /\ ttUp'.startOffset = file.size
              /\ ttUp.pc = "upload" => ttUp'.request.to = file.size
              /\ ttUp'.chunkIndex = ttUp'.total_chunk_count
              /\ IsCeil(ttUp'.chunkIndex, file.size, 10000000)]_vars

(* a file of 2MB and a byte went to Facebook in two chunks, the second of one
   byte *)
C30_Witness ==
    /\ fbUp.pc = "done"
    /\ file.size = Around(2, 1)
    /\ fbUp.chunkIndex = 2
    /\ fbUp.request.phase = "finish"
    /\ fbUp.startOffset = file.size

(* the Facebook adapter returned a result or threw an error *)
FacebookEnded == fbUp.pc \in {"done", "failed", "rejected"}

(* C31: if every network request returns or times out, uploadVideoToFacebook
   always ends with a result or an error, after at most maxRetries upload
   sessions (3, or 5 for files over 100MB), and within one session each chunk
   is sent at most 3 times. *)
C31_FacebookTerminates ==
    /\ [](/\ fbUp.sessions <= (IF AtMost100MB(file.size) THEN 3 ELSE 5)
          /\ fbUp.starts <= (IF AtMost100MB(file.size) THEN 3 ELSE 5)
          /\ fbUp.pc = "transfer" => fbUp.retry + 1 <= 3)
    /\ (file.platform = "facebook" => <>FacebookEnded)

(* the upload of a large file failed after five sessions, the last of which
   sent a chunk three times *)
C31_Witness ==
    /\ fbUp.pc = "failed"
    /\ fbUp.sessions = 5
    /\ fbUp.request.phase = "transfer"
    /\ ~AtMost100MB(file.size)

----------------------------------------------------------------------------
(* Claims about the rows and the blob *)

(* C32: in every reachable state a PostPlatform with status 'uploaded' has a
   video id and no error message, and a PostPlatform with status 'failed' has
   an error message. *)
C32_RowsWellFormed ==
    \A p \in SelectedPlatforms :
        LET row == post_platforms[p]
        IN  /\ row.status = "uploaded" =>
                   row.platform_video_id # NULL /\ row.error_message = NULL
            /\ row.status = "failed" => row.error_message # NULL

(* a row that had failed was retried and is uploaded, while another row is
   failed *)
C32_Witness ==
    \E p, q \in SelectedPlatforms :
        /\ p \in showRetry
        /\ post_platforms[p].status = "uploaded"
        /\ post_platforms[p].error_message = NULL
        /\ post_platforms[q].status = "failed"
        /\ post_platforms[q].error_message # NULL

(* every process-upload request of the post has been answered and the page
   has not gone on *)
ProcessRequestsCompleted ==
    /\ submit.pc = "fanout"
    /\ \A p \in SelectedPlatforms : Settled(proc[p])

(* C33: in the storage-mediated path, once every process-upload request of a
   post has completed, the post's status eventually leaves 'uploading', even
   if the page that sent the requests takes no further step. *)
C33_StatusLeavesUploading ==
    ProcessRequestsCompleted ~> post_status # "uploading"

(* every process-upload request has been answered, every row is uploaded and
   the post is still 'uploading' *)
C33_Witness ==
    /\ ProcessRequestsCompleted
    /\ post_status = "uploading"
    /\ \A p \in SelectedPlatforms : post_platforms[p].status = "uploaded"

(* the retries of Facebook and TikTok, the two failed platforms, were the
   only ones, both adapter calls returned and both handlers have answered *)
TwoRetriesSucceeded ==
    /\ \A p \in {"facebook", "tiktok"} :
           retryLog.started[p] = 1 /\ retryLog.succeeded[p] = 1
    /\ retryLog.started["youtube"] = 0
    /\ \A r \in RetryIds : retry[r].pc = "idle"

(* C34: when the retries for the last two failed platforms of a post run
   concurrently and both succeed, at least one of them finds every row
   'uploaded' or 'published', so after both have completed the post status is
   'pending', the blob is deleted and the stored blob path is null. *)
C34_ConcurrentRetriesFinish ==
    TwoRetriesSucceeded =>
        /\ post_status = "pending"
        /\ video_file_path = NoPath
        /\ storage = {}

(* the two retries overlapped, both succeeded and the post is 'pending' *)
C34_Witness ==
    /\ TwoRetriesSucceeded
    /\ retryLog.overlapped
    /\ post_status = "pending"
    /\ removed # {}

----------------------------------------------------------------------------
(* C35: a stored blob path that is not null names a blob that exists in
   storage.  The claim states it for every reachable state; it is checked
   here in the states where no handler of the post is running, so that the
   moment between a handler's removal of the blob and its clearing of the
   path does not count.  The cleanup job removes blobs and writes no post. *)
C35_PathHasBlob ==
    (Quiescent /\ video_file_path # NoPath) => video_file_path \in storage

C35_Witness ==
    /\ Quiescent
    /\ video_file_path # NoPath
    /\ [path |-> video_file_path, by |-> "cleanup"] \in removed

----------------------------------------------------------------------------
(* Ownership: the session's user, the post's user_id and the user folders of
   the 'videos' bucket *)

(* auth.uid() of the two accounts; the post belongs to the first *)
UserIds == {"user", "other"}

(* scheduled_posts.user_id of the post *)
PostUser == "user"

(* supabase.auth.getUser(): one of the users, or no session *)
Sessions == UserIds \cup {NULL}

(* the paths under the other user's folder; 1..MaxBlobs lie under the folder
   of the post's user *)
OtherPaths == {MaxBlobs + 1}

FilePaths == (1..MaxBlobs) \cup OtherPaths

(* (storage.foldername(name))[1]: the user folder of a path *)
FolderName(path) == IF path \in OtherPaths THEN "other" ELSE "user"

(* faulty variant of StartsWithUserId: every path passes *)
StartsWithUserId_mutant(filePath, user) == TRUE

(* filePath.startsWith(`${user.id}/`) *)
StartsWithUserId(filePath, user) == FolderName(filePath) = user

(* faulty variant of OwnVideos: the policies let every object through *)
OwnVideos_mutant(user, store) == store

(* the storage policies "Users can read / delete their own videos": of the
   objects in store, those the session's user may read and delete *)
OwnVideos(user, store) == {f \in store : FolderName(f) = user}

(* faulty variant of PostOf: the row is selected by id alone *)
PostOf_mutant(user, status) == status

(* .eq('id', postId).eq('user_id', user.id).single(): the status of the row
   the query yields, "none" when it yields no row *)
PostOf(user, status) == IF user = PostUser THEN status ELSE "none"

(* the answer of its route to a request of the session's user *)
ReceivedFrom(user, op, filePath, status) ==
    [NoResponse EXCEPT !.op = op, !.status = status, !.user = user,
                       !.filePath = filePath]

(* POST /api/upload/delete-storage: a path outside the user's folder is
   answered 403; otherwise the object is removed, as far as the delete policy
   lets the user, and the route answers success *)
DeleteStorage(user, filePath) ==
    /\ IF user = NULL
       THEN /\ response' = ReceivedFrom(user, "delete", filePath, 401)
            /\ UNCHANGED << storage, old, removed >>
       ELSE IF ~StartsWithUserId(filePath, user)
       THEN /\ response' = ReceivedFrom(user, "delete", filePath, 403)
            /\ UNCHANGED << storage, old, removed >>
       ELSE LET gone == OwnVideos(user, storage \cap {filePath})
            IN  /\ storage' = storage \ gone
                /\ old' = old \ gone
                /\ removed' = removed \cup
                       {[path |-> f, by |-> "delete"] : f \in gone}
                /\ response' =
                       [ReceivedFrom(user, "delete", filePath, 200) EXCEPT
                           !.success = TRUE]
    /\ UNCHANGED << post_status, video_file_path, post_platforms, nextPath,
                    submit, proc, retry, showRetry, retryingPlatform,
                    metadata, scheduled_at, edit >>

(* POST /api/upload/retry sent for a platform the dashboard shows a Retry
   button for, under any session and with any file path or none: without a
   session 401, without a post of the user 404; otherwise the handler goes
   on as far as the adapter call, the download being subject to the read
   policy *)
RetryRoute(r, user, p, newFilePath) ==
    /\ FreeHandler(r)
    /\ p \in showRetry
    /\ IF user = NULL \/ PostOf(user, post_status) = "none"
       THEN /\ response' = ReceivedFrom(user, "retry", newFilePath,
                                        IF user = NULL THEN 401 ELSE 404)
            /\ UNCHANGED << video_file_path, post_platforms, retry,
                            retryingPlatform >>
       ELSE /\ RetryBegin(r, p, newFilePath, OwnVideos(user, storage))
            /\ response' = ReceivedFrom(user, "retry", newFilePath,
                                        IF retry'[r].pc = "idle" THEN 404
                                        ELSE 0)
    /\ UNCHANGED << post_status, storage, old, nextPath, submit, proc,
                    showRetry, removed, metadata, scheduled_at, edit >>

(* PATCH /api/posts/[postId]/metadata with title and description, under any
   session: the handler up to the platform calls *)
UpdateMetadataRoute(user, req) ==
    /\ edit.pc = "idle"
    /\ LET rejected == IF user = NULL THEN 401
                       ELSE MetadataRejection(req, PostOf(user, post_status))
       IN  IF rejected # 0
           THEN /\ response' = ReceivedFrom(user, "metadata", NoPath, rejected)
                /\ UNCHANGED << metadata, edit >>
           ELSE /\ metadata' = req.values
                /\ edit' = [pc |-> "updating", requested |-> req.values,
                            platforms |-> req.platforms,
                            todo |-> EligibleForUpdate(post_platforms,
                                                       req.platforms),
                            called |-> {}, threw |-> {}, errors |-> << >>]
                /\ response' = [ReceivedFrom(user, "metadata", NoPath, 0)
                                   EXCEPT !.requested = req.values]
    /\ UNCHANGED << orchVars, scheduled_at >>

----------------------------------------------------------------------------
(* Schedule edit with its times: PATCH /api/posts/[postId]/schedule *)

(* the naive local times asked for, in hours *)
ScheduleHours == {0, 1, 9, 10}

(* the request bodies: scheduledAt and timezone, each present or not *)
ScheduleBodies ==
    [scheduledAt : ScheduleHours, timezone : Timezones \cup {"UTC"}]
        \cup [scheduledAt : ScheduleHours]
        \cup [timezone : Timezones]
        \cup {[other |-> NULL]}

(* scheduled_at and timezone of the post as create-post stored them *)
CreatedSchedule == [scheduled_at |-> 24, timezone |-> "Europe/Berlin"]

InitEditAt ==
    /\ metadata = "created"
    /\ scheduled_at = CreatedSchedule
    /\ edit = IdleEdit
    /\ response = NoResponse

(* timezone || post.timezone || 'UTC' *)
selectedTimezone(body, post) ==
    IF "timezone" \in DOMAIN body THEN body.timezone ELSE post.timezone

(* lines 57-63: the instant asked for; a time without offset and without
   zone is read on the server's clock, which runs on UTC *)
ScheduledDateOf(naive, zone) ==
    IF zone # "UTC" THEN convertNaiveDateToUTC(naive, zone) ELSE naive

(* faulty variant of NotAfter: the present instant passes *)
NotAfter_mutant(hour, minutes) == 60 * hour < minutes

(* scheduledDate <= now, the clock counting minutes *)
NotAfter(hour, minutes) == 60 * hour <= minutes

(* faulty variant of Editable: a failed post can be rescheduled *)
Editable_mutant(status) == status \in {"pending", "uploading", "failed"}

(* line 47: post.status is 'pending' or 'uploading' *)
Editable(status) == status \in {"pending", "uploading"}

(* lines 17-70: the status the route answers before it writes anything, 0 if
   the request goes through *)
ScheduleAtRejection(user, body, status, post, clock) ==
    IF user = NULL THEN 401
    ELSE IF "scheduledAt" \notin DOMAIN body THEN 400
    ELSE IF PostOf(user, status) = "none" THEN 404
    ELSE IF ~Editable(status) THEN 400
    ELSE IF NotAfter(ScheduledDateOf(body.scheduledAt,
                                     selectedTimezone(body, post)), clock)
         THEN 400
    ELSE 0

(* the whole handler, the clock read when the times are compared: a rejected
   request is answered at once; otherwise scheduled_at and timezone of the
   post are updated, YouTube's video is rescheduled (the call returns or
   throws inside its try/catch) and the route answers success *)
UpdateScheduleAt(user, body) ==
    LET rejected == ScheduleAtRejection(user, body, post_status,
                                        scheduled_at, now)
    IN  /\ IF rejected # 0
           THEN /\ response' = ReceivedFrom(user, "schedule", NoPath, rejected)
                /\ UNCHANGED scheduled_at
           ELSE \E ok \in BOOLEAN :
                LET zone == selectedTimezone(body, scheduled_at)
                    calls == RescheduleCalls(post_platforms)
                    threw == IF ok THEN {} ELSE calls
                IN  /\ scheduled_at' =
                           [scheduled_at |->
                                ScheduledDateOf(body.scheduledAt, zone),
                            timezone |-> zone]
                    /\ response' =
                           [ReceivedFrom(user, "schedule", NoPath, 200) EXCEPT
                               !.success = TRUE,
                               !.called = calls,
                               !.threw = threw,
                               !.errors = IF threw = {} THEN << >>
                                          ELSE << "youtube" >>]
        /\ UNCHANGED << orchVars, metadata, edit >>

(* the edits of the post's owner and of the other user, complete *)
CompleteEdits ==
    {[op |-> "metadata", auth |-> TRUE, missing |-> "none",
      values |-> "edit1", platforms |-> ps] : ps \in {{}, {"youtube"}}}

CompleteBodies ==
    {[scheduledAt |-> 10, timezone |-> "Asia/Tokyo"],
     [scheduledAt |-> 9, timezone |-> "Asia/Tokyo"]}

(* the state InitTwoFailed, with a blob of the other user in the bucket *)
InitOwners ==
    /\ post_status = "failed"
    /\ video_file_path = 1
    /\ post_platforms =
           [p \in SelectedPlatforms |->
               IF p = "youtube" THEN UploadedRow(PendingRow, FALSE)
               ELSE FailedRow(PendingRow)]
    /\ storage = {1} \cup OtherPaths
    /\ old = {}
    /\ nextPath = 2
    /\ submit = [pc |-> "done", filePath |-> NoPath]
    /\ proc = [p \in SelectedPlatforms |->
                  IF p = "youtube" THEN "ok" ELSE "threw"]
    /\ retry = [r \in RetryIds |-> IdleRetry]
    /\ showRetry = {"facebook", "tiktok"}
    /\ retryingPlatform = NULL
    /\ removed = {}
    /\ InitToken /\ InitEditAt /\ InitTags /\ InitChunk /\ InitDate
    /\ InitUpload /\ InitLog

NextOwners ==
    \/ \E user \in Sessions, filePath \in FilePaths :
          DeleteStorage(user, filePath) /\ UNCHANGED << tokenVars, pureVars >>
    \/ \E user \in Sessions, p \in SelectedPlatforms,
          newFilePath \in {NoPath} \cup FilePaths :
          RetryRoute(FirstRetry, user, p, newFilePath)
              /\ UNCHANGED << tokenVars, pureVars >>
    \/ \E ok \in BOOLEAN :
          RetryUpload(FirstRetry, ok) /\ UNCHANGED << tokenVars, extVars >>
    \/ RetryCheck(FirstRetry) /\ UNCHANGED << tokenVars, extVars >>
    \/ RetryRemove(FirstRetry) /\ UNCHANGED << tokenVars, extVars >>
    \/ RetryClearPath(FirstRetry) /\ UNCHANGED << tokenVars, extVars >>
    \/ \E user \in Sessions, req \in CompleteEdits :
          UpdateMetadataRoute(user, req) /\ UNCHANGED << tokenVars, pureVars >>
    \/ \E p \in SelectedPlatforms, ok \in BOOLEAN :
          PlatformUpdate(p, ok) /\ UNCHANGED << orchVars, tokenVars, pureVars >>
    \/ UpdateMetadataRespond /\ UNCHANGED << orchVars, tokenVars, pureVars >>
    \/ \E user \in Sessions, body \in CompleteBodies :
          UpdateScheduleAt(user, body) /\ UNCHANGED << tokenVars, pureVars >>

SpecOwners == InitOwners /\ [][NextOwners]_vars

(* schedule edits while the page uploads, the clock running *)
InitSchedule ==
    InitOrch /\ InitToken /\ InitEditAt /\ InitTags /\ InitChunk /\ InitDate
        /\ InitUpload /\ InitLog

NextSchedule ==
    \/ CreatePost /\ UNCHANGED << tokenVars, extVars >>
    \/ SubmitUploadToStorage /\ UNCHANGED << tokenVars, extVars >>
    \/ SubmitStorePath /\ UNCHANGED << tokenVars, extVars >>
    \/ \E p \in SelectedPlatforms :
          ProcessDownload(p) /\ UNCHANGED << tokenVars, extVars >>
    \/ \E p \in SelectedPlatforms, ok \in BOOLEAN :
          ProcessUpload(p, ok) /\ UNCHANGED << tokenVars, extVars >>
    \/ SubmitJoin /\ UNCHANGED << tokenVars, extVars >>
    \/ SubmitDeleteStorage /\ UNCHANGED << tokenVars, extVars >>
    \/ SubmitClearPath /\ UNCHANGED << tokenVars, extVars >>
    \/ SubmitSetPending /\ UNCHANGED << tokenVars, extVars >>
    \/ SubmitCatch /\ UNCHANGED << tokenVars, extVars >>
    \/ Tick /\ UNCHANGED << orchVars, extVars >>
    \/ \E user \in Sessions, body \in ScheduleBodies :
          UpdateScheduleAt(user, body) /\ UNCHANGED << tokenVars, pureVars >>

SpecSchedule == InitSchedule /\ [][NextSchedule]_vars

----------------------------------------------------------------------------
(* C36: no operation removes a blob outside the folder of the user who asked
   for it.  In every step, each blob removed by delete-storage lies in the
   folder of the session's user and each blob removed by a retry lies in the
   folder of the post's user, who alone can start one; delete-storage answers
   403 to a path outside the user's folder, and a step that answers 403
   removes nothing. *)
C36_OwnFolderOnly ==
    [][/\ \A f \in storage \ storage' :
              \E x \in removed' \ removed : x.path = f
       /\ \A x \in removed' \ removed :
              /\ x.by \in {"delete", "retry"}
              /\ x.by = "delete" =>
                     /\ response'.op = "delete"
                     /\ FolderName(x.path) = response'.user
              /\ x.by = "retry" => FolderName(x.path) = PostUser
       /\ (/\ response'.op = "delete"
           /\ response'.user # NULL
           /\ FolderName(response'.filePath) # response'.user)
              => response'.status = 403
       /\ (response' # response /\ response'.status = 403)
              => storage' = storage
       /\ \A r \in RetryIds :
              retry'[r].pc # "idle" =>
                  FolderName(retry'[r].videoFilePath) = PostUser]_vars

(* a retry has removed the post's own blob, the post's user then asked
   delete-storage for the other user's blob and was answered 403, and that
   blob is still there *)
C36_Witness ==
    /\ response.op = "delete"
    /\ response.user = PostUser
    /\ response.filePath \in OtherPaths
    /\ response.status = 403
    /\ OtherPaths \subseteq storage
    /\ [path |-> 1, by |-> "retry"] \in removed

----------------------------------------------------------------------------
(* C37: a retry, a metadata edit or a schedule edit asked by a user the post
   does not belong to is answered 404, and the step that answers it leaves
   the post, its rows, the bucket, the handlers in flight, the metadata and
   the schedule as they were and starts no adapter call. *)
C37_ForeignPostNotFound ==
    [][(/\ response' # response
        /\ response'.user \in UserIds \ {PostUser}
        /\ response'.op \in {"retry", "metadata", "schedule"})
          => /\ response'.status = 404
             /\ response'.called = {}
             /\ UNCHANGED << orchVars, metadata, scheduled_at, edit >>]_vars

(* the other user's schedule edit was answered 404 while the post was
   'pending' with an uploaded YouTube video, which the owner's edit would
   have rescheduled *)
C37_Witness ==
    /\ response.user \in UserIds \ {PostUser}
    /\ response.op = "schedule"
    /\ response.status = 404
    /\ post_status = "pending"
    /\ RescheduleCalls(post_platforms) # {}
    /\ scheduled_at = CreatedSchedule

----------------------------------------------------------------------------
(* C38: a schedule edit changes the stored scheduled_at only when the post is
   'pending' or 'uploading' and the converted new time lies strictly after
   the clock; every other request is answered an error, leaves scheduled_at
   and timezone as they were and calls no platform. *)
C38_ScheduleOnlyForward ==
    [][/\ scheduled_at' # scheduled_at =>
              /\ response'.op = "schedule"
              /\ response'.status = 200
       /\ (response' # response /\ response'.op = "schedule") =>
              IF response'.status = 200
              THEN /\ post_status \in {"pending", "uploading"}
                   /\ 60 * scheduled_at'.scheduled_at > now
                   /\ response'.success
              ELSE /\ response'.status \in {400, 401, 404}
                   /\ ~response'.success
                   /\ response'.called = {}
                   /\ scheduled_at' = scheduled_at]_vars

(* the post 'uploading' with its YouTube video uploaded, the clock past its
   start, and a schedule edit for an hour from the start accepted: the stored
   time is the converted one and YouTube was called *)
C38_Witness ==
    /\ response.op = "schedule"
    /\ response.status = 200
    /\ response.called = {"youtube"}
    /\ post_status = "uploading"
    /\ now > 0
    /\ scheduled_at.scheduled_at = 1
    /\ scheduled_at # CreatedSchedule

----------------------------------------------------------------------------
(* C39: the step in which a retry's adapter call fails leaves the row of its
   platform 'failed' with the error message and changes neither the post's
   status, nor the bucket, nor the stored path, nor any other row; and the
   step in which a retry begins changes, besides its own row, only the stored
   path, and that only to the new path it was sent with. *)
C39_FailedRetryLeavesPost ==
    [][\A r \in RetryIds :
          /\ (retry[r].pc = "uploading" /\ retry'[r].pc = "idle") =>
                 /\ post_platforms'[retry[r].platform].status = "failed"
                 /\ post_platforms'[retry[r].platform].error_message = "error"
                 /\ \A q \in SelectedPlatforms \ {retry[r].platform} :
                        post_platforms'[q] = post_platforms[q]
                 /\ post_status' = post_status
                 /\ storage' = storage
                 /\ video_file_path' = video_file_path
          /\ (retry[r].pc = "idle" /\ retry'[r].pc = "uploading") =>
                 /\ \A q \in SelectedPlatforms \ {retry'[r].platform} :
                        post_platforms'[q] = post_platforms[q]
                 /\ post_status' = post_status
                 /\ storage \subseteq storage'
                 /\ video_file_path' # video_file_path =>
                        /\ video_file_path' = retry'[r].videoFilePath
                        /\ video_file_path' \notin storage]_vars

(* Facebook's retry, sent with a new video after the cleanup job had removed
   the first, failed: its row is 'failed' again with the message, the post is
   still 'failed', the new blob is stored and the path names it, and
   TikTok's row was not touched *)
C39_Witness ==
    /\ retryLog.started["facebook"] = 1
    /\ retryLog.succeeded["facebook"] = 0
    /\ retryLog.started["tiktok"] = 0
    /\ \A r \in RetryIds : retry[r].pc = "idle"
    /\ post_platforms["facebook"] = FailedRow(PendingRow)
    /\ post_platforms["tiktok"] = FailedRow(PendingRow)
    /\ post_status = "failed"
    /\ video_file_path = 2
    /\ storage = {2}

====
